---- MODULE Spec2Model ----
(***************************************************************************)
(* A model of tidyhome's recurrence engine (src/utils/migration.ts, the    *)
(* part that is utils/recurrence.ts), of its weekly scheduler              *)
(* (src/utils/scheduler.ts), of the flows that store the schedules         *)
(* (src/App.tsx, src/hooks/useTasks.ts, src/services/firestoreService.ts)  *)
(* and of a client with its snapshot callback, its daily reset pass and    *)
(* its completion toggles.                                                 *)
(*                                                                         *)
(* A YYYY-MM-DD string is modelled as the triple <<y, m, d>> of its three  *)
(* zero-padded fields; JavaScript's string comparison of two such strings  *)
(* is the lexicographic comparison of the triples.  A JavaScript Date at   *)
(* local midnight is modelled as its day number (days since 1970-01-01).   *)
(***************************************************************************)
EXTENDS Integers, Sequences, FiniteSets, TLC

VARIABLES
    task,            \* the Task the recurrence engine is asked about
    startDate,       \* the query date, or the first date of the queried range
    endDate,         \* the last date of the queried range
    pc,              \* "start", or the function that has returned
    occurrences,     \* what getTaskOccurrences returned
    isDue,           \* what isTaskDueOnDate returned
    nextOccurrence,  \* what getNextOccurrence returned
    tasks,           \* the task list optimizeWeeklySchedule is called with
    availableDays,   \* its availableDays argument
    roomEntries,     \* its sorted room groups
    dayLoads,        \* its Map of day -> minutes, in insertion order
    assigned,        \* the number of room groups its loop has handled
    assignments,     \* its result, under construction and as returned
    store,           \* the task documents of the household in Firestore
    today,           \* getToday()
    migrationKey,    \* localStorage has tidyhome_schema_v2
    walk,            \* the locals of the loop getTaskOccurrences is in
    snapshots,       \* the snapshots the subscription has yet to deliver
    loading,         \* the loading state of useTasks
    lastReset,       \* localStorage's tidyhome_last_reset
    passes,          \* the daily reset passes started, running or over
    migrations,      \* the runMigration calls started, running or over
    clicks           \* the number of handleToggleTask calls so far

engineVars ==
    <<task, startDate, endDate, occurrences, isDue, nextOccurrence>>

schedulerVars ==
    <<tasks, availableDays, roomEntries, dayLoads, assigned, assignments>>

appVars == <<store, today, migrationKey>>

clientVars == <<snapshots, loading, lastReset, passes, migrations, clicks>>

vars == <<pc, engineVars, schedulerVars, appVars, walk, clientVars>>

NoResult == <<"none">>

\* the recurrence engine has not been called
EngineIdle ==
    /\ task = NoResult
    /\ startDate = NoResult
    /\ endDate = NoResult
    /\ occurrences = NoResult
    /\ isDue = NoResult
    /\ nextOccurrence = NoResult

\* the scheduler has not been called
SchedulerIdle ==
    /\ tasks = <<>>
    /\ availableDays = <<>>
    /\ roomEntries = <<>>
    /\ dayLoads = <<>>
    /\ assigned = 0
    /\ assignments = NoResult

\* no household is open
AppIdle ==
    /\ store = <<>>
    /\ today = NoResult
    /\ migrationKey = FALSE

\* getTaskOccurrences is in no loop
WalkIdle == walk = <<>>

\* no client has subscribed
ClientIdle ==
    /\ snapshots = <<>>
    /\ loading = TRUE
    /\ lastReset = <<>>
    /\ passes = <<>>
    /\ migrations = <<>>
    /\ clicks = 0

-----------------------------------------------------------------------------
(* JavaScript numbers *)

\* a % b of JavaScript for b > 0: the remainder takes the sign of a
JSRem(a, b) == IF a >= 0 THEN a % b ELSE 0 - ((0 - a) % b)

\* Math.round(n / d) for d > 0: nearest integer, a half rounds up
MathRound(n, d) == (2 * n + d) \div (2 * d)

Min(a, b) == IF a <= b THEN a ELSE b

-----------------------------------------------------------------------------
(* JavaScript Date, in local time *)

IsLeapYear(y) == (y % 4 = 0 /\ y % 100 # 0) \/ y % 400 = 0

\* day number of January 1st of year y
DayFromYear(y) ==
    365 * (y - 1970) + ((y - 1969) \div 4) - ((y - 1901) \div 100)
        + ((y - 1601) \div 400)

\* days of a common year before each month, January first
CumulativeDays == <<0, 31, 59, 90, 120, 151, 181, 212, 243, 273, 304, 334>>

\* days of year y before its 0-based month m
DaysBeforeMonth(y, m) ==
    CumulativeDays[m + 1] + (IF m >= 2 /\ IsLeapYear(y) THEN 1 ELSE 0)

\* new Date(year, month, date): month is 0-based, and a month or a date out
\* of range carries over into the next year or month
MakeDay(year, month, date) ==
    LET y == year + (month \div 12)
        m == month % 12
    IN  DayFromYear(y) + DaysBeforeMonth(y, m) + date - 1

\* the year y with DayFromYear(y) <= day < DayFromYear(y + 1), for a day from
\* 1970 to 2200: it is at most two years after 1970 + day / 366
getFullYear(day) ==
    LET y0 == 1970 + (day \div 366)
    IN  IF day < DayFromYear(y0 + 1) THEN y0
        ELSE IF day < DayFromYear(y0 + 2) THEN y0 + 1 ELSE y0 + 2

\* the 0-based month holding the n-th day (from 0) of year y
MonthInYear(y, n) ==
    LET m0 == n \div 31
    IN  IF m0 = 11 \/ n < DaysBeforeMonth(y, m0 + 1) THEN m0 ELSE m0 + 1

\* 0-based month
getMonth(day) ==
    LET y == getFullYear(day)
    IN  MonthInYear(y, day - DayFromYear(y))

getDate(day) ==
    LET y == getFullYear(day)
        n == day - DayFromYear(y)
    IN  n - DaysBeforeMonth(y, MonthInYear(y, n)) + 1

\* 0 = Sunday .. 6 = Saturday; 1970-01-01 was a Thursday
getDay(day) == (day + 4) % 7

\* Daylight saving time of the local zone: one hour, April to October
DstHours(day) == IF getMonth(day) \in 3 .. 9 THEN 1 ELSE 0

\* Date.getTime() of local midnight of `day`, in hours
getTime(day) == 24 * day - DstHours(day)

-----------------------------------------------------------------------------
(* Date helpers on YYYY-MM-DD strings *)

\* a < b, a <= b on strings
StrLT(a, b) ==
    \/ a[1] < b[1]
    \/ a[1] = b[1] /\ a[2] < b[2]
    \/ a[1] = b[1] /\ a[2] = b[2] /\ a[3] < b[3]

StrLE(a, b) == a = b \/ StrLT(a, b)

toDate(dateStr) == MakeDay(dateStr[1], dateStr[2] - 1, dateStr[3])

toDateStr(date) ==
    LET y == getFullYear(date)
        n == date - DayFromYear(y)
        m == MonthInYear(y, n)
    IN  <<y, m + 1, n - DaysBeforeMonth(y, m) + 1>>

addDays(dateStr, days) == toDateStr(toDate(dateStr) + days)

dayOfWeek(dateStr) == getDay(toDate(dateStr))

dayOfMonth(dateStr) == getDate(toDate(dateStr))

\* a faulty variant of daysInMonth: new Date(year, month, 0), the month before
daysInMonthBefore(year, month) == getDate(MakeDay(year, month, 0))

daysInMonth(year, month) == getDate(MakeDay(year, month + 1, 0))

diffDays(a, b) == MathRound(getTime(toDate(b)) - getTime(toDate(a)), 24)

-----------------------------------------------------------------------------
(* Tasks *)

Daily == "Daily"
Weekly == "Weekly"
BiWeekly == "Bi-Weekly"
Monthly == "Monthly"
Quarterly == "Quarterly"

\* An optional field is <<>> when undefined and <<v>> when it holds v
Undefined == <<>>

\* value ?? fallback
Coalesce(value, fallback) == IF value = Undefined THEN fallback ELSE value[1]

-----------------------------------------------------------------------------
(* getTaskOccurrences *)

\* a faulty variant of isOnWeek: "on" unless weeksDiff % 2 is 1, which a negative
\* odd weeksDiff is not
isOnWeekUnlessOne(anchor, current) ==
    LET weeksDiff == MathRound(diffDays(anchor, current), 7)
    IN  JSRem(weeksDiff, 2) # 1

\* a faulty variant of isOnWeek: weeksDiff counts the whole weeks from the anchor,
\* Math.floor for Math.round
isOnWeekWhole(anchor, current) ==
    LET weeksDiff == diffDays(anchor, current) \div 7
    IN  JSRem(JSRem(weeksDiff, 2) + 2, 2) = 0

\* a faulty variant of isOnWeek: weeksDiff is truncated towards zero, Math.trunc
\* for Math.round
isOnWeekTruncated(anchor, current) ==
    LET days == diffDays(anchor, current)
        weeksDiff == IF days < 0 THEN 0 - ((0 - days) \div 7) ELSE days \div 7
    IN  JSRem(JSRem(weeksDiff, 2) + 2, 2) = 0

\* the test of the BiWeekly loop: is `current` in an "on" week of `anchor`
isOnWeek(anchor, current) ==
    LET weeksDiff == MathRound(diffDays(anchor, current), 7)
    IN  JSRem(JSRem(weeksDiff, 2) + 2, 2) = 0

\* the body of the while loops that visit every day: results after `current`
DayBody(frequency, targetDay, anchor, current, results) ==
    CASE frequency = Daily -> Append(results, current)
      [] frequency = Weekly ->
            IF dayOfWeek(current) = targetDay
            THEN Append(results, current) ELSE results
      [] frequency = BiWeekly ->
            IF dayOfWeek(current) = targetDay /\ isOnWeek(anchor, current)
            THEN Append(results, current) ELSE results

\* at most n iterations of  while (current <= endDate) { body; current =
\* addDays(current, 1) } : the loop's <<current, results>> after them
RECURSIVE DayIterations(_, _, _, _, _, _, _)
DayIterations(frequency, targetDay, anchor, current, endDate_, results, n) ==
    IF n = 0 \/ ~StrLE(current, endDate_)
    THEN <<current, results>>
    ELSE DayIterations(frequency, targetDay, anchor, addDays(current, 1),
                       endDate_,
                       DayBody(frequency, targetDay, anchor, current, results),
                       n - 1)

\* the whole while loop, run in blocks of 16 iterations (the blocks only keep
\* the evaluation shallow: the iterations are those of the loop, in order)
RECURSIVE DayLoop(_, _, _, _, _, _)
DayLoop(frequency, targetDay, anchor, current, endDate_, results) ==
    IF ~StrLE(current, endDate_)
    THEN results
    ELSE LET after == DayIterations(frequency, targetDay, anchor, current,
                                    endDate_, results, 16)
         IN  DayLoop(frequency, targetDay, anchor, after[1], endDate_,
                     after[2])

\* the date string built for a month: `${year}-${month + 1}-${day}`, padded
MonthDateStr(targetDom, year, month) ==
    LET maxDay == daysInMonth(year, month)
        day == Min(targetDom, maxDay)
    IN  <<year, month + 1, day>>

\* a faulty variant of pushFromStart: the candidate is pushed without the test
pushAlways(results, dateStr, startDate_) == Append(results, dateStr)

\* if (dateStr >= startDate) results.push(dateStr)
pushFromStart(results, dateStr, startDate_) ==
    IF StrLE(startDate_, dateStr) THEN Append(results, dateStr) ELSE results

\* a faulty variant of MonthlyLoop: maxDay is taken once, from the month of endDate
RECURSIVE MonthlyLoopEndMonth(_, _, _, _, _, _)
MonthlyLoopEndMonth(targetDom, startDate_, endDate_, year, month, results) ==
    LET end == toDate(endDate_)
        maxDay == daysInMonth(getFullYear(end), getMonth(end))
        dateStr == <<year, month + 1, Min(targetDom, maxDay)>>
        pushed == pushFromStart(results, dateStr, startDate_)
        month1 == IF month + 1 > 11 THEN 0 ELSE month + 1
        year1 == IF month + 1 > 11 THEN year + 1 ELSE year
    IN  IF StrLT(endDate_, dateStr) THEN results
        ELSE IF year1 > getFullYear(end) + 1 THEN pushed
        ELSE MonthlyLoopEndMonth(targetDom, startDate_, endDate_, year1,
                                 month1, pushed)

\* the while (true) loop of Monthly from <<year, month>> on
RECURSIVE MonthlyLoop(_, _, _, _, _, _)
MonthlyLoop(targetDom, startDate_, endDate_, year, month, results) ==
    LET dateStr == MonthDateStr(targetDom, year, month)
        pushed == pushFromStart(results, dateStr, startDate_)
        month1 == IF month + 1 > 11 THEN 0 ELSE month + 1
        year1 == IF month + 1 > 11 THEN year + 1 ELSE year
    IN  IF StrLT(endDate_, dateStr) THEN results
        ELSE IF year1 > getFullYear(toDate(endDate_)) + 1 THEN pushed
        ELSE MonthlyLoop(targetDom, startDate_, endDate_, year1, month1,
                         pushed)

\* a faulty variant of inQuarterlyCycle: the calendar quarters, whatever the anchor
inCalendarQuarter(month, anchorMonth) == JSRem(month, 3) = 0

\* is `month` in the quarterly cycle of anchorMonth
inQuarterlyCycle(month, anchorMonth) ==
    LET monthDiff == JSRem(month - anchorMonth + 12, 12)
    IN  JSRem(monthDiff, 3) = 0

\* the while (true) loop of Quarterly from <<year, month>> on
RECURSIVE QuarterlyLoop(_, _, _, _, _, _, _)
QuarterlyLoop(targetDom, anchorMonth, startDate_, endDate_, year, month, results) ==
    LET inCycle == inQuarterlyCycle(month, anchorMonth)
        dateStr == MonthDateStr(targetDom, year, month)
        pushed == IF inCycle
                  THEN pushFromStart(results, dateStr, startDate_)
                  ELSE results
        month1 == IF month + 1 > 11 THEN 0 ELSE month + 1
        year1 == IF month + 1 > 11 THEN year + 1 ELSE year
    IN  IF inCycle /\ StrLT(endDate_, dateStr) THEN results
        ELSE IF year1 > getFullYear(toDate(endDate_)) + 1 THEN pushed
        ELSE QuarterlyLoop(targetDom, anchorMonth, startDate_, endDate_,
                           year1, month1, pushed)

OccurrencesDaily(t, startDate_, endDate_) ==
    DayLoop(Daily, Undefined, Undefined, startDate_, endDate_, <<>>)

\* a faulty variant of OccurrencesWeekly: scheduledDay || ..., which drops a 0
OccurrencesWeeklyOr(t, startDate_, endDate_) ==
    LET targetDay == IF t.scheduledDay = Undefined \/ t.scheduledDay = <<0>>
                     THEN dayOfWeek(t.nextDueDate) ELSE t.scheduledDay[1]
    IN  DayLoop(Weekly, targetDay, Undefined, startDate_, endDate_, <<>>)

OccurrencesWeekly(t, startDate_, endDate_) ==
    LET targetDay == Coalesce(t.scheduledDay, dayOfWeek(t.nextDueDate))
    IN  DayLoop(Weekly, targetDay, Undefined, startDate_, endDate_, <<>>)

\* a faulty variant of OccurrencesBiWeekly: the anchor is nextDueDate ?? anchorDate
OccurrencesBiWeeklyDueAnchor(t, startDate_, endDate_) ==
    LET targetDay == Coalesce(t.scheduledDay, dayOfWeek(t.nextDueDate))
        anchor == t.nextDueDate
    IN  DayLoop(BiWeekly, targetDay, anchor, startDate_, endDate_, <<>>)

OccurrencesBiWeekly(t, startDate_, endDate_) ==
    LET targetDay == Coalesce(t.scheduledDay, dayOfWeek(t.nextDueDate))
        anchor == Coalesce(t.anchorDate, t.nextDueDate)
    IN  DayLoop(BiWeekly, targetDay, anchor, startDate_, endDate_, <<>>)

\* a faulty variant of OccurrencesMonthly: the walk starts at the month after the
\* month of startDate
OccurrencesMonthlyNextMonth(t, startDate_, endDate_) ==
    LET targetDom == Coalesce(t.scheduledDay, dayOfMonth(t.nextDueDate))
        start == toDate(startDate_)
        last == getMonth(start) = 11
    IN  MonthlyLoop(targetDom, startDate_, endDate_,
                    IF last THEN getFullYear(start) + 1 ELSE getFullYear(start),
                    IF last THEN 0 ELSE getMonth(start) + 1, <<>>)

OccurrencesMonthly(t, startDate_, endDate_) ==
    LET targetDom == Coalesce(t.scheduledDay, dayOfMonth(t.nextDueDate))
        start == toDate(startDate_)
    IN  MonthlyLoop(targetDom, startDate_, endDate_, getFullYear(start),
                    getMonth(start), <<>>)

\* a faulty variant of OccurrencesQuarterly: the anchor falls back to the start of
\* the range, anchorDate ?? startDate
OccurrencesQuarterlyStartAnchor(t, startDate_, endDate_) ==
    LET targetDom == Coalesce(t.scheduledDay, dayOfMonth(t.nextDueDate))
        anchor == Coalesce(t.anchorDate, startDate_)
        anchorMonth == getMonth(toDate(anchor))
        start == toDate(startDate_)
    IN  QuarterlyLoop(targetDom, anchorMonth, startDate_, endDate_,
                      getFullYear(start), getMonth(start), <<>>)

OccurrencesQuarterly(t, startDate_, endDate_) ==
    LET targetDom == Coalesce(t.scheduledDay, dayOfMonth(t.nextDueDate))
        anchor == Coalesce(t.anchorDate, t.nextDueDate)
        anchorMonth == getMonth(toDate(anchor))
        start == toDate(startDate_)
    IN  QuarterlyLoop(targetDom, anchorMonth, startDate_, endDate_,
                      getFullYear(start), getMonth(start), <<>>)

getTaskOccurrences(t, startDate_, endDate_) ==
    CASE t.frequency = Daily -> OccurrencesDaily(t, startDate_, endDate_)
      [] t.frequency = Weekly -> OccurrencesWeekly(t, startDate_, endDate_)
      [] t.frequency = BiWeekly -> OccurrencesBiWeekly(t, startDate_, endDate_)
      [] t.frequency = Monthly -> OccurrencesMonthly(t, startDate_, endDate_)
      [] t.frequency = Quarterly ->
            OccurrencesQuarterly(t, startDate_, endDate_)
      [] OTHER -> <<>>

\* a faulty variant of isTaskDueOnDate: Weekly and BiWeekly are special-cased by the
\* day of the week alone
isTaskDueOnDateByDay(t, date) ==
    IF t.frequency \in {Weekly, BiWeekly}
    THEN dayOfWeek(date)
            = Coalesce(t.scheduledDay, dayOfWeek(t.nextDueDate))
    ELSE Len(getTaskOccurrences(t, date, date)) > 0

isTaskDueOnDate(t, date) == Len(getTaskOccurrences(t, date, date)) > 0

\* a faulty variant of getNextOccurrence: the last occurrence found, not the first
getNextOccurrenceLast(t, onOrAfterDate) ==
    IF t.frequency = Daily THEN onOrAfterDate
    ELSE LET end == addDays(onOrAfterDate, 366)
             found == getTaskOccurrences(t, onOrAfterDate, end)
         IN  IF Len(found) > 0 THEN found[Len(found)] ELSE onOrAfterDate

\* a faulty variant of getNextOccurrence: the fallback is the end of the search
getNextOccurrenceEnd(t, onOrAfterDate) ==
    IF t.frequency = Daily THEN onOrAfterDate
    ELSE LET end == addDays(onOrAfterDate, 366)
             found == getTaskOccurrences(t, onOrAfterDate, end)
         IN  IF Len(found) > 0 THEN found[1] ELSE end

getNextOccurrence(t, onOrAfterDate) ==
    IF t.frequency = Daily THEN onOrAfterDate
    ELSE LET end == addDays(onOrAfterDate, 366)
             found == getTaskOccurrences(t, onOrAfterDate, end)
         IN  IF Len(found) > 0 THEN found[1] ELSE onOrAfterDate

-----------------------------------------------------------------------------
(* The inputs the engine is run on *)

\* the range starts are 29 days apart, MaxStart + 1 of them:
\* 2023-12-03 (Sunday), 2024-01-01 (Monday), 2024-01-30 (Tuesday), ...
MaxStart == 2

\* the ranges span 40 * j * j days for j in 0 .. MaxSpan (0, 40, 160, 360,
\* ...), or end the day before they start
MaxSpan == 3

StartDates == {addDays(<<2023, 12, 3>>, 29 * i) : i \in 0 .. MaxStart}

Spans == {0 - 1} \cup {40 * j * j : j \in 0 .. MaxSpan}

\* a Monday in January and a Thursday in March
AnchorDates == {<<2024, 1, 1>>, <<2024, 3, 14>>}

\* a Wednesday the 10th and a Thursday the 29th
DueDates == {<<2024, 1, 10>>, <<2024, 2, 29>>}

\* days of the week, and 7 that is none
WeekDays == {0, 1, 3, 7}

\* days of the month
MonthDays == {1, 15, 30, 31}

Optional(S) == {Undefined} \cup {<<v>> : v \in S}

\* does getTaskOccurrences read t.nextDueDate: is a field that t.frequency
\* uses undefined
readsNextDueDate(t) ==
    \/ t.frequency # Daily /\ t.scheduledDay = Undefined
    \/ t.frequency \in {BiWeekly, Quarterly} /\ t.anchorDate = Undefined

\* the tasks: each frequency with its scheduled days and anchors, defined or
\* not; a task whose nextDueDate is read has either due date, the others one
Tasks ==
    LET Of(F, days, anchors) ==
            {t \in [frequency : F, scheduledDay : days, anchorDate : anchors,
                    nextDueDate : DueDates] :
                readsNextDueDate(t) \/ t.nextDueDate = <<2024, 1, 10>>}
    IN  Of({Daily}, {Undefined}, {Undefined})
        \cup Of({Weekly}, Optional(WeekDays), {Undefined})
        \cup Of({BiWeekly}, Optional(WeekDays), Optional(AnchorDates))
        \cup Of({Monthly}, Optional(MonthDays), {Undefined})
        \cup Of({Quarterly}, Optional(MonthDays), Optional(AnchorDates))

-----------------------------------------------------------------------------
(* The engine's three functions, each called on the inputs *)

InitInputs ==
    /\ task \in Tasks
    /\ startDate \in StartDates
    /\ pc = "start"
    /\ occurrences = NoResult
    /\ isDue = NoResult
    /\ nextOccurrence = NoResult
    /\ SchedulerIdle
    /\ AppIdle
    /\ WalkIdle
    /\ ClientIdle

\* a task and a range
Init ==
    /\ InitInputs
    /\ endDate \in {addDays(startDate, n) : n \in Spans}

\* a task and a date
InitDate ==
    /\ InitInputs
    /\ endDate = startDate

CallGetTaskOccurrences ==
    /\ pc = "start"
    /\ occurrences' = getTaskOccurrences(task, startDate, endDate)
    /\ pc' = "getTaskOccurrences"
    /\ UNCHANGED <<task, startDate, endDate, isDue, nextOccurrence>>
    /\ UNCHANGED schedulerVars
    /\ UNCHANGED appVars
    /\ UNCHANGED <<walk, clientVars>>

CallIsTaskDueOnDate ==
    /\ pc = "start"
    /\ isDue' = isTaskDueOnDate(task, startDate)
    /\ pc' = "isTaskDueOnDate"
    /\ UNCHANGED <<task, startDate, endDate, occurrences, nextOccurrence>>
    /\ UNCHANGED schedulerVars
    /\ UNCHANGED appVars
    /\ UNCHANGED <<walk, clientVars>>

CallGetNextOccurrence ==
    /\ pc = "start"
    /\ nextOccurrence' = getNextOccurrence(task, startDate)
    /\ pc' = "getNextOccurrence"
    /\ UNCHANGED <<task, startDate, endDate, occurrences, isDue>>
    /\ UNCHANGED schedulerVars
    /\ UNCHANGED appVars
    /\ UNCHANGED <<walk, clientVars>>

Next == CallGetTaskOccurrences \/ CallIsTaskDueOnDate

Spec == Init /\ [][Next]_vars

NextDate == CallIsTaskDueOnDate \/ CallGetNextOccurrence

SpecDate == InitDate /\ [][NextDate]_vars

-----------------------------------------------------------------------------
(* Properties of getTaskOccurrences *)

\* the dates of a sequence
Range(seq) == {seq[i] : i \in 1 .. Len(seq)}

\* C1: getTaskOccurrences returns only dates d with startDate <= d <= endDate,
\* in strictly increasing order (so without duplicates), and returns nothing
\* when startDate > endDate.
C1_InRangeAndIncreasing ==
    pc = "getTaskOccurrences" =>
        /\ \A i \in 1 .. Len(occurrences) :
                StrLE(startDate, occurrences[i]) /\ StrLE(occurrences[i], endDate)
        /\ \A i \in 1 .. Len(occurrences) - 1 :
                StrLT(occurrences[i], occurrences[i + 1])
        /\ StrLT(endDate, startDate) => occurrences = <<>>

\* a Monthly range that starts after the scheduled day of its first month,
\* so that month's date is left out, and that returns several later dates
C1_Witness ==
    /\ pc = "getTaskOccurrences"
    /\ task.frequency = Monthly
    /\ task.scheduledDay # Undefined
    /\ task.scheduledDay[1] < startDate[3]
    /\ Len(occurrences) >= 2

\* The calendar, stated apart from the code's date helpers.
\* the calendar's days from startDate_ to endDate_, as date strings
DatesBetween(startDate_, endDate_) ==
    {toDateStr(n) : n \in toDate(startDate_) .. toDate(endDate_)}

\* the calendar: the number of days of month m (1 to 12) of year y
CalendarDays(y, m) ==
    CASE m = 2 -> IF IsLeapYear(y) THEN 29 ELSE 28
      [] m \in {4, 6, 9, 11} -> 30
      [] OTHER -> 31

\* the calendar months <<y, m>> that overlap [startDate_, endDate_]
MonthsBetween(startDate_, endDate_) ==
    {ym \in (startDate_[1] .. endDate_[1]) \X (1 .. 12) :
        /\ ~StrLT(<<ym[1], ym[2], 99>>, startDate_)
        /\ ~StrLT(endDate_, <<ym[1], ym[2], 0>>)}

\* C2: for a Weekly task with scheduledDay = w in 0..6 the result is exactly
\* the dates of [startDate, endDate] whose day of the week is w, and neither
\* anchorDate nor nextDueDate has any influence on it.
C2_WeeklyExact ==
    (/\ pc = "getTaskOccurrences"
     /\ task.frequency = Weekly
     /\ task.scheduledDay # Undefined
     /\ task.scheduledDay[1] \in 0 .. 6) =>
        /\ Range(occurrences) =
              {d \in DatesBetween(startDate, endDate) :
                  (toDate(d) + 4) % 7 = task.scheduledDay[1]}
        /\ \A a \in Optional(AnchorDates), n \in DueDates :
              getTaskOccurrences(
                  [task EXCEPT !.anchorDate = a, !.nextDueDate = n],
                  startDate, endDate) = occurrences

\* scheduledDay = 3 from 2024-01-01 on: the five Wednesdays of January 2024
C2_Witness ==
    /\ pc = "getTaskOccurrences"
    /\ task.frequency = Weekly
    /\ task.scheduledDay = <<3>>
    /\ startDate = <<2024, 1, 1>>
    /\ Len(occurrences) >= 6
    /\ SubSeq(occurrences, 1, 6) =
          << <<2024, 1, 3>>, <<2024, 1, 10>>, <<2024, 1, 17>>,
             <<2024, 1, 24>>, <<2024, 1, 31>>, <<2024, 2, 7>> >>

\* C3: for a BiWeekly task whose anchorDate falls on the day of the week
\* scheduledDay, a date is an occurrence iff its distance in days from the
\* anchor is a multiple of 14, after the anchor and before it alike.
C3_BiWeeklyAligned ==
    (/\ pc = "getTaskOccurrences"
     /\ task.frequency = BiWeekly
     /\ task.scheduledDay # Undefined
     /\ task.anchorDate # Undefined
     /\ (toDate(task.anchorDate[1]) + 4) % 7 = task.scheduledDay[1]) =>
        Range(occurrences) =
            {d \in DatesBetween(startDate, endDate) :
                (toDate(d) - toDate(task.anchorDate[1])) % 14 = 0}

\* anchor 2024-01-01, a Monday: 12-18, 01-01 and 01-15 occur, and 12-25,
\* 01-08 and 01-22 do not
C3_Witness ==
    /\ pc = "getTaskOccurrences"
    /\ task.frequency = BiWeekly
    /\ task.scheduledDay = <<1>>
    /\ task.anchorDate = << <<2024, 1, 1>> >>
    /\ startDate = <<2023, 12, 3>>
    /\ StrLE(<<2024, 1, 22>>, endDate)
    /\ {<<2023, 12, 18>>, <<2024, 1, 1>>, <<2024, 1, 15>>}
          \subseteq Range(occurrences)
    /\ {<<2023, 12, 25>>, <<2024, 1, 8>>, <<2024, 1, 22>>}
          \cap Range(occurrences) = {}

\* C4: for a Monthly task with scheduledDay = k in 1..31 every calendar month
\* overlapping [startDate, endDate] has one candidate, the day min(k, days of
\* that month), and the result is exactly the candidates within the range.
C4_MonthlyClamped ==
    (/\ pc = "getTaskOccurrences"
     /\ task.frequency = Monthly
     /\ task.scheduledDay # Undefined
     /\ task.scheduledDay[1] \in 1 .. 31) =>
        /\ Range(occurrences) =
              {d \in {<<ym[1], ym[2],
                        Min(task.scheduledDay[1], CalendarDays(ym[1], ym[2]))>> :
                          ym \in MonthsBetween(startDate, endDate)} :
                  StrLE(startDate, d) /\ StrLE(d, endDate)}
        /\ Len(occurrences) = Cardinality(Range(occurrences))

\* scheduledDay = 31 over February to April 2024: 02-29, 03-31 and 04-30
C4_Witness ==
    /\ pc = "getTaskOccurrences"
    /\ task.frequency = Monthly
    /\ task.scheduledDay = <<31>>
    /\ {<<2024, 2, 29>>, <<2024, 3, 31>>, <<2024, 4, 30>>}
          \subseteq Range(occurrences)

\* C5: for a Quarterly task with anchorDate in month a and scheduledDay = k
\* the occurrences in [startDate, endDate] are exactly the dates of day
\* min(k, days of the month) in the months m with (m - a) mod 12 in
\* {0, 3, 6, 9}, in every year of the range.
C5_QuarterlyCycle ==
    (/\ pc = "getTaskOccurrences"
     /\ task.frequency = Quarterly
     /\ task.scheduledDay # Undefined
     /\ task.scheduledDay[1] \in 1 .. 31
     /\ task.anchorDate # Undefined) =>
        Range(occurrences) =
            {d \in {<<ym[1], ym[2],
                      Min(task.scheduledDay[1], CalendarDays(ym[1], ym[2]))>> :
                        ym \in MonthsBetween(startDate, endDate)} :
                /\ StrLE(startDate, d) /\ StrLE(d, endDate)
                /\ (d[2] - task.anchorDate[1][2]) % 12 \in {0, 3, 6, 9}}

\* scheduledDay = 15 and an anchor in January, over most of 2024: January,
\* April, July and October
C5_Witness ==
    /\ pc = "getTaskOccurrences"
    /\ task.frequency = Quarterly
    /\ task.scheduledDay = <<15>>
    /\ task.anchorDate = << <<2024, 1, 1>> >>
    /\ occurrences = << <<2024, 1, 15>>, <<2024, 4, 15>>, <<2024, 7, 15>>,
                        <<2024, 10, 15>> >>

-----------------------------------------------------------------------------
(* Properties of getNextOccurrence and isTaskDueOnDate *)

\* the dates getNextOccurrence searches from `date`: date .. date + 366
SearchWindow(date) == DatesBetween(date, addDays(date, 366))

\* C6: when the task has an occurrence in [date, date + 366],
\* getNextOccurrence returns the earliest: a date r >= date on which the task
\* is due, with no occurrence in [date, r); for a Daily task r = date.
C6_NextIsEarliest ==
    pc = "getNextOccurrence" =>
        /\ (\E d \in SearchWindow(startDate) : isTaskDueOnDate(task, d)) =>
              /\ nextOccurrence \in SearchWindow(startDate)
              /\ StrLE(startDate, nextOccurrence)
              /\ isTaskDueOnDate(task, nextOccurrence)
              /\ \A d \in SearchWindow(startDate) :
                    StrLT(d, nextOccurrence) => ~isTaskDueOnDate(task, d)
        /\ task.frequency = Daily => nextOccurrence = startDate

\* a Quarterly task that is not due on the query date: its next occurrence
\* is a later date
C6_Witness ==
    /\ pc = "getNextOccurrence"
    /\ task.frequency = Quarterly
    /\ ~isTaskDueOnDate(task, startDate)
    /\ StrLT(startDate, nextOccurrence)
    /\ isTaskDueOnDate(task, nextOccurrence)

\* C7: when the task has no occurrence in [date, date + 366],
\* getNextOccurrence returns date itself, which is then not an occurrence.
C7_FallbackIsDate ==
    (/\ pc = "getNextOccurrence"
     /\ \A d \in SearchWindow(startDate) : ~isTaskDueOnDate(task, d)) =>
        nextOccurrence = startDate

\* a Weekly task with scheduledDay = 7 is never due, and gets the query date
C7_Witness ==
    /\ pc = "getNextOccurrence"
    /\ task.frequency = Weekly
    /\ task.scheduledDay = <<7>>
    /\ \A d \in SearchWindow(startDate) : ~isTaskDueOnDate(task, d)
    /\ nextOccurrence = startDate

\* C8: isTaskDueOnDate(T, d) is true exactly when getTaskOccurrences(T, d, d)
\* is not empty, for all five frequencies.
C8_DueIffSingleDayRange ==
    pc = "isTaskDueOnDate" =>
        (isDue <=> getTaskOccurrences(task, startDate, startDate) # <<>>)

\* a BiWeekly task that is due on the query date
C8_Witness ==
    /\ pc = "isTaskDueOnDate"
    /\ task.frequency = BiWeekly
    /\ isDue = TRUE
    /\ getTaskOccurrences(task, startDate, startDate) = <<startDate>>

-----------------------------------------------------------------------------
(* Relations between results of getTaskOccurrences *)

\* the range ends of the model from startDate_
EndDates(startDate_) == {addDays(startDate_, n) : n \in Spans}

\* the ends that extend [startDate_, endDate_]: the next day and the next
\* larger range of the model (the larger ones follow, one extension each)
LaterEnds(startDate_, endDate_) ==
    {addDays(endDate_, 1)} \cup
    {x \in EndDates(startDate_) :
        /\ StrLT(endDate_, x)
        /\ \A y \in EndDates(startDate_) :
              ~(StrLT(endDate_, y) /\ StrLT(y, x))}

\* C9: extending the end of the range never removes an occurrence: every
\* date of getTaskOccurrences(T, s, e) is in getTaskOccurrences(T, s, e') for
\* e' > e.
C9_RangeMonotone ==
    pc = "getTaskOccurrences" =>
        \A later \in LaterEnds(startDate, endDate) :
            Range(occurrences)
                \subseteq Range(getTaskOccurrences(task, startDate, later))

\* a Monthly range whose result has a clamped date and whose extension ends
\* in a later year
C9_Witness ==
    /\ pc = "getTaskOccurrences"
    /\ task.frequency = Monthly
    /\ task.scheduledDay = <<31>>
    /\ <<2024, 2, 29>> \in Range(occurrences)
    /\ \E later \in LaterEnds(startDate, endDate) : later[1] > endDate[1]

\* the task with another nextDueDate, and with a room and completed dates
OtherTask(t, due) ==
    [frequency |-> t.frequency, scheduledDay |-> t.scheduledDay,
     anchorDate |-> t.anchorDate, nextDueDate |-> due, room |-> "Kitchen",
     completedDates |-> <<startDate>>]

\* C10 as stated: two tasks that agree on frequency, scheduledDay and
\* anchorDate (each equal or both undefined) have the same occurrences,
\* whatever their nextDueDate and other fields.
C10_DeterminedByThreeFields ==
    pc = "getTaskOccurrences" =>
        \A due \in DueDates :
            getTaskOccurrences(OtherTask(task, due), startDate, endDate)
                = occurrences

\* C10 amended: two tasks that agree on frequency, scheduledDay and
\* anchorDate have the same occurrences whatever their other fields, when
\* the fields their frequency reads are defined (scheduledDay unless Daily,
\* anchorDate for BiWeekly and Quarterly); when one is undefined they have
\* the same occurrences if they also agree on nextDueDate.
C10_DeterminedWhenDefined ==
    pc = "getTaskOccurrences" =>
        \A due \in DueDates :
            (\/ task.frequency = Daily
             \/ /\ task.scheduledDay # Undefined
                /\ task.frequency \in {BiWeekly, Quarterly}
                      => task.anchorDate # Undefined
             \/ due = task.nextDueDate) =>
                getTaskOccurrences(OtherTask(task, due), startDate, endDate)
                    = occurrences

\* a BiWeekly task with both fields defined and several occurrences, which
\* another nextDueDate leaves as they are
C10_Witness ==
    /\ pc = "getTaskOccurrences"
    /\ task.frequency = BiWeekly
    /\ task.scheduledDay # Undefined
    /\ task.anchorDate # Undefined
    /\ Len(occurrences) >= 2
    /\ \E due \in DueDates :
          /\ due # task.nextDueDate
          /\ getTaskOccurrences(OtherTask(task, due), startDate, endDate)
                = occurrences

-----------------------------------------------------------------------------
(* The fallbacks to nextDueDate *)

\* the scheduledDay a task without one behaves like: the day of the week of
\* its nextDueDate (Weekly, BiWeekly) or its day of the month (Monthly,
\* Quarterly), read off the calendar
DueScheduledDay(t) ==
    IF t.frequency \in {Weekly, BiWeekly}
    THEN <<(toDate(t.nextDueDate) + 4) % 7>>
    ELSE <<t.nextDueDate[3]>>

\* C11: a task without scheduledDay has the occurrences of the same task
\* with scheduledDay = the day of the week of nextDueDate (Weekly, BiWeekly)
\* or its day of the month (Monthly, Quarterly), and a BiWeekly or Quarterly
\* task without anchorDate has those of the same task with anchorDate =
\* nextDueDate.
C11_FallbackToNextDueDate ==
    (pc = "getTaskOccurrences" /\ task.frequency # Daily) =>
        /\ task.scheduledDay = Undefined =>
              getTaskOccurrences(
                  [task EXCEPT !.scheduledDay = DueScheduledDay(task)],
                  startDate, endDate) = occurrences
        /\ (/\ task.anchorDate = Undefined
            /\ task.frequency \in {BiWeekly, Quarterly}) =>
              getTaskOccurrences(
                  [task EXCEPT !.anchorDate = <<task.nextDueDate>>],
                  startDate, endDate) = occurrences

\* a Quarterly task with neither field and nextDueDate 2024-02-29, from
\* 2023-12-03 to 2024-11-27: the 29th of February, May and August
C11_Witness ==
    /\ pc = "getTaskOccurrences"
    /\ task.frequency = Quarterly
    /\ task.scheduledDay = Undefined
    /\ task.anchorDate = Undefined
    /\ task.nextDueDate = <<2024, 2, 29>>
    /\ startDate = <<2023, 12, 3>>
    /\ occurrences = << <<2024, 2, 29>>, <<2024, 5, 29>>, <<2024, 8, 29>> >>

-----------------------------------------------------------------------------
(* optimizeWeeklySchedule (src/utils/scheduler.ts) *)

\* A Map is modelled as the sequence of its entries in insertion order.  A
\* day is an optional number as scheduledDay is: <<d>>, or Undefined for
\* availableDays[0] of an empty list.

\* a faulty variant of isWeeklyTask: BiWeekly is left out
isWeeklyOnly(t) == t.frequency = Weekly

isWeeklyTask(t) == t.frequency = Weekly \/ t.frequency = BiWeekly

\* tasks.filter(...)
weeklyTasks(tasks_) == SelectSeq(tasks_, isWeeklyTask)

\* a faulty variant of roomGroupsPush: every task opens a group of its own
roomGroupsPushEach(roomGroups, t) ==
    Append(roomGroups, [room |-> t.room, tasks |-> <<t>>])

\* if (!roomGroups.has(room)) roomGroups.set(room, []);
\* roomGroups.get(room)!.push(task)
roomGroupsPush(roomGroups, t) ==
    IF \E i \in 1 .. Len(roomGroups) : roomGroups[i].room = t.room
    THEN [i \in 1 .. Len(roomGroups) |->
            IF roomGroups[i].room = t.room
            THEN [roomGroups[i] EXCEPT !.tasks = Append(@, t)]
            ELSE roomGroups[i]]
    ELSE Append(roomGroups, [room |-> t.room, tasks |-> <<t>>])

\* the Map after the first n tasks of the list
RECURSIVE roomGroupsOf(_, _)
roomGroupsOf(weekly, n) ==
    IF n = 0 THEN <<>>
    ELSE roomGroupsPush(roomGroupsOf(weekly, n - 1), weekly[n])

\* tasks.reduce((sum, t) => sum + t.estimatedMinutes, 0), over the first n
RECURSIVE reduceMinutes(_, _)
reduceMinutes(roomTasks, n) ==
    IF n = 0 THEN 0
    ELSE reduceMinutes(roomTasks, n - 1) + roomTasks[n].estimatedMinutes

\* Array.from(roomGroups.entries()).map(...)
roomEntriesOf(roomGroups) ==
    [i \in 1 .. Len(roomGroups) |->
        [room |-> roomGroups[i].room,
         tasks |-> roomGroups[i].tasks,
         totalMinutes |->
            reduceMinutes(roomGroups[i].tasks, Len(roomGroups[i].tasks))]]

\* a faulty variant of sortInsert: the comparator is a.totalMinutes - b.totalMinutes
sortInsertAscending(sorted, entry) ==
    LET k == Cardinality({i \in 1 .. Len(sorted) :
                            sorted[i].totalMinutes <= entry.totalMinutes})
    IN  SubSeq(sorted, 1, k) \o <<entry>> \o SubSeq(sorted, k + 1, Len(sorted))

\* where the stable sort by b.totalMinutes - a.totalMinutes puts an entry
\* that follows the ones of sorted in the array: behind those that are not
\* lighter
sortInsert(sorted, entry) ==
    LET k == Cardinality({i \in 1 .. Len(sorted) :
                            sorted[i].totalMinutes >= entry.totalMinutes})
    IN  SubSeq(sorted, 1, k) \o <<entry>> \o SubSeq(sorted, k + 1, Len(sorted))

\* a faulty variant of sortEntries: the entries are left in the order of the Map
sortEntriesUnsorted(entries, n) == SubSeq(entries, 1, n)

\* roomEntries.sort((a, b) => b.totalMinutes - a.totalMinutes), of the
\* first n entries
RECURSIVE sortEntries(_, _)
sortEntries(entries, n) ==
    IF n = 0 THEN <<>>
    ELSE sortInsert(sortEntries(entries, n - 1), entries[n])

\* dayLoads.set(day, load)
dayLoadsSet(loads, day, load) ==
    IF \E i \in 1 .. Len(loads) : loads[i].day = day
    THEN [i \in 1 .. Len(loads) |->
            IF loads[i].day = day THEN [day |-> day, load |-> load]
            ELSE loads[i]]
    ELSE Append(loads, [day |-> day, load |-> load])

\* dayLoads.get(day)
dayLoadsGet(loads, day) ==
    IF \E i \in 1 .. Len(loads) : loads[i].day = day
    THEN <<(CHOOSE e \in Range(loads) : e.day = day).load>>
    ELSE Undefined

\* a faulty variant of initialDayLoads: a load for each day of the week
initialDayLoadsOfWeek(availableDays_, n) ==
    [d \in 1 .. 7 |-> [day |-> <<d - 1>>, load |-> 0]]

\* for (const day of availableDays) dayLoads.set(day, 0), the first n days
RECURSIVE initialDayLoads(_, _)
initialDayLoads(availableDays_, n) ==
    IF n = 0 THEN <<>>
    ELSE dayLoadsSet(initialDayLoads(availableDays_, n - 1),
                     <<availableDays_[n]>>, 0)

\* minLoad = Infinity
Infinity == <<>>

\* a faulty variant of minDayLoop: load <= minLoad, which keeps the last of the
\* lightest days
RECURSIVE minDayLoopLast(_, _, _, _)
minDayLoopLast(loads, i, minDay, minLoad) ==
    IF i > Len(loads) THEN minDay
    ELSE IF minLoad = Infinity \/ loads[i].load <= minLoad[1]
         THEN minDayLoopLast(loads, i + 1, loads[i].day, <<loads[i].load>>)
         ELSE minDayLoopLast(loads, i + 1, minDay, minLoad)

\* for (const [day, load] of dayLoads) if (load < minLoad) ..., from entry i
RECURSIVE minDayLoop(_, _, _, _)
minDayLoop(loads, i, minDay, minLoad) ==
    IF i > Len(loads) THEN minDay
    ELSE IF minLoad = Infinity \/ loads[i].load < minLoad[1]
         THEN minDayLoop(loads, i + 1, loads[i].day, <<loads[i].load>>)
         ELSE minDayLoop(loads, i + 1, minDay, minLoad)

\* the day the loop finds: let minDay = availableDays[0]; ...
minDayOf(loads, availableDays_) ==
    minDayLoop(loads, 1,
               IF Len(availableDays_) > 0 THEN <<availableDays_[1]>>
               ELSE Undefined,
               Infinity)

\* for (const task of roomTasks) assignments.push(...)
pushAssignments(assignments_, roomTasks, minDay) ==
    assignments_ \o
        [i \in 1 .. Len(roomTasks) |->
            [taskId |-> roomTasks[i].id, scheduledDay |-> minDay]]

\* a faulty variant of addLoad: dayLoads.set(minDay, totalMinutes), the load the
\* day had is dropped
addLoadOverwrite(loads, minDay, totalMinutes) ==
    dayLoadsSet(loads, minDay, totalMinutes)

\* a faulty variant of addLoad: dayLoads.get(minDay) ?? 0 + totalMinutes, without
\* the parentheses
addLoadUnlessSet(loads, minDay, totalMinutes) ==
    dayLoadsSet(loads, minDay,
                Coalesce(dayLoadsGet(loads, minDay), 0 + totalMinutes))

\* dayLoads.set(minDay, (dayLoads.get(minDay) ?? 0) + totalMinutes)
addLoad(loads, minDay, totalMinutes) ==
    dayLoadsSet(loads, minDay,
                Coalesce(dayLoadsGet(loads, minDay), 0) + totalMinutes)

-----------------------------------------------------------------------------
(* The inputs the scheduler is run on *)

\* the mixed task lists have up to MaxMixed tasks
MaxMixed == 3

\* the one-task-per-room lists have MaxRooms rooms
MaxRooms == 5

RoomNames ==
    <<"Kitchen", "Bathroom", "Office", "Bedroom", "Garage", "Hall", "Attic",
      "Cellar">>

\* room, frequency and estimatedMinutes of the tasks of the mixed lists
TaskKinds ==
    {<<"Kitchen", Weekly, 40>>, <<"Kitchen", BiWeekly, 25>>,
     <<"Bathroom", Weekly, 25>>, <<"Bathroom", BiWeekly, 15>>,
     <<"Office", Weekly, 10>>, <<"Office", BiWeekly, 0>>,
     <<"Kitchen", Daily, 5>>, <<"Bathroom", Monthly, 60>>,
     <<"Office", Quarterly, 45>>}

\* the task list of the kinds: the ids are t1, t2, ... by position
TaskList(kinds) ==
    [i \in 1 .. Len(kinds) |->
        [id |-> i, room |-> kinds[i][1], frequency |-> kinds[i][2],
         estimatedMinutes |-> kinds[i][3]]]

MixedLists ==
    UNION {{TaskList(kinds) : kinds \in [1 .. n -> TaskKinds]} :
                n \in 0 .. MaxMixed}

\* one Weekly task of 20 or 30 minutes in each of MaxRooms rooms
RoomLists ==
    {TaskList([i \in 1 .. MaxRooms |-> <<RoomNames[i], Weekly, minutes[i]>>]) :
        minutes \in [1 .. MaxRooms -> {20, 30}]}

\* the default value of availableDays
DefaultDays == <<1, 2, 3, 4, 5, 6>>

\* availableDays: the default, none, one day, two days, a day given twice,
\* and three days with Sunday among them
DayLists == {DefaultDays, <<>>, <<3>>, <<5, 2>>, <<2, 2, 4>>, <<6, 0, 3>>}

InitScheduler ==
    /\ tasks \in MixedLists \cup RoomLists
    /\ availableDays \in DayLists
    /\ pc = "start"
    /\ roomEntries = <<>>
    /\ dayLoads = <<>>
    /\ assigned = 0
    /\ assignments = NoResult
    /\ EngineIdle
    /\ AppIdle
    /\ WalkIdle
    /\ ClientIdle

\* optimizeWeeklySchedule up to its loop, or to its early return
CallOptimizeWeeklySchedule ==
    /\ pc = "start"
    /\ LET weekly == weeklyTasks(tasks)
           roomGroups == roomGroupsOf(weekly, Len(weekly))
           entries == roomEntriesOf(roomGroups)
       IN  IF Len(weekly) = 0
           THEN /\ pc' = "optimizeWeeklySchedule"
                /\ UNCHANGED <<roomEntries, dayLoads>>
           ELSE /\ pc' = "for"
                /\ roomEntries' = sortEntries(entries, Len(entries))
                /\ dayLoads' =
                      initialDayLoads(availableDays, Len(availableDays))
    /\ assignments' = <<>>
    /\ UNCHANGED <<tasks, availableDays, assigned>>
    /\ UNCHANGED engineVars
    /\ UNCHANGED appVars
    /\ UNCHANGED <<walk, clientVars>>

\* one iteration of for (const { tasks: roomTasks, totalMinutes } of
\* roomEntries)
AssignRoom ==
    /\ pc = "for"
    /\ assigned < Len(roomEntries)
    /\ LET entry == roomEntries[assigned + 1]
           minDay == minDayOf(dayLoads, availableDays)
       IN  /\ assignments' = pushAssignments(assignments, entry.tasks, minDay)
           /\ dayLoads' = addLoad(dayLoads, minDay, entry.totalMinutes)
    /\ assigned' = assigned + 1
    /\ UNCHANGED <<pc, tasks, availableDays, roomEntries>>
    /\ UNCHANGED engineVars
    /\ UNCHANGED appVars
    /\ UNCHANGED <<walk, clientVars>>

\* return assignments
ReturnAssignments ==
    /\ pc = "for"
    /\ assigned = Len(roomEntries)
    /\ pc' = "optimizeWeeklySchedule"
    /\ UNCHANGED schedulerVars
    /\ UNCHANGED appVars
    /\ UNCHANGED engineVars
    /\ UNCHANGED <<walk, clientVars>>

NextScheduler ==
    CallOptimizeWeeklySchedule \/ AssignRoom \/ ReturnAssignments

SpecScheduler == InitScheduler /\ [][NextScheduler]_vars

-----------------------------------------------------------------------------
(* Properties of optimizeWeeklySchedule *)

\* the positions of the Weekly and BiWeekly tasks of the task list
Qualifying == {i \in 1 .. Len(tasks) : tasks[i].frequency \in {Weekly, BiWeekly}}

\* the positions in the result that name the task
AssignmentsOf(id) ==
    {j \in 1 .. Len(assignments) : assignments[j].taskId = id}

\* C12: the taskIds of the result are exactly the ids of the Weekly and
\* BiWeekly tasks of the input, each once; Daily, Monthly and Quarterly
\* tasks get no assignment, and an input without a Weekly or BiWeekly task
\* (the empty list too) gives the empty list.
C12_Completeness ==
    pc = "optimizeWeeklySchedule" =>
        /\ \A i \in 1 .. Len(tasks) :
              Cardinality(AssignmentsOf(tasks[i].id))
                  = IF i \in Qualifying THEN 1 ELSE 0
        /\ Len(assignments) = Cardinality(Qualifying)
        /\ Qualifying = {} => assignments = <<>>

\* a Daily, a Weekly and a BiWeekly task: the result names the second and
\* the third
C12_Witness ==
    /\ pc = "optimizeWeeklySchedule"
    /\ Len(tasks) = 3
    /\ tasks[1].frequency = Daily
    /\ tasks[2].frequency = Weekly
    /\ tasks[3].frequency = BiWeekly
    /\ {assignments[j].taskId : j \in 1 .. Len(assignments)} = {2, 3}

\* the day the result gives the task at position i of the input
DayOf(i) ==
    assignments[CHOOSE j \in 1 .. Len(assignments) :
                    assignments[j].taskId = tasks[i].id].scheduledDay

\* C13: any two Weekly or BiWeekly tasks with the same room are assigned
\* the same scheduledDay, whatever the order of the input and whatever
\* availableDays.
C13_RoomGrouping ==
    pc = "optimizeWeeklySchedule" =>
        \A i, j \in Qualifying :
            tasks[i].room = tasks[j].room => DayOf(i) = DayOf(j)

\* two Kitchen tasks with a Bathroom task between them: the Kitchen tasks
\* share a day that is not the Bathroom's
C13_Witness ==
    /\ pc = "optimizeWeeklySchedule"
    /\ Qualifying = {1, 2, 3}
    /\ tasks[1].room = "Kitchen"
    /\ tasks[2].room = "Bathroom"
    /\ tasks[3].room = "Kitchen"
    /\ DayOf(1) = DayOf(3)
    /\ DayOf(1) # DayOf(2)

\* the scheduledDay values of the result so far
AssignedDays == {assignments[j].scheduledDay : j \in 1 .. Len(assignments)}

\* C14 as stated: for every task list and every availableDays, each
\* scheduledDay of the result is an element of availableDays, and a day of
\* 1..6 with the default availableDays.
C14_DayBound ==
    pc = "optimizeWeeklySchedule" =>
        /\ \A day \in AssignedDays :
              day # Undefined /\ day[1] \in Range(availableDays)
        /\ availableDays = <<1, 2, 3, 4, 5, 6>> =>
              \A day \in AssignedDays : day # Undefined /\ day[1] \in 1 .. 6

\* C14 amended: for every task list and every availableDays that is not
\* empty, each scheduledDay of the result is an element of availableDays,
\* and a day of 1..6 with the default availableDays.
C14_DayBoundNonEmpty ==
    (pc = "optimizeWeeklySchedule" /\ Len(availableDays) > 0) =>
        /\ \A day \in AssignedDays :
              day # Undefined /\ day[1] \in Range(availableDays)
        /\ availableDays = <<1, 2, 3, 4, 5, 6>> =>
              \A day \in AssignedDays : day # Undefined /\ day[1] \in 1 .. 6

\* three room groups over the days 6, 0 and 3: each day is assigned
C14_Witness ==
    /\ pc = "optimizeWeeklySchedule"
    /\ availableDays = <<6, 0, 3>>
    /\ AssignedDays = {<<6>>, <<0>>, <<3>>}

\* the running load of a day: its minutes in the Map, 0 without an entry
LoadOf(loads, day) ==
    IF \E e \in Range(loads) : e.day = day
    THEN (CHOOSE e \in Range(loads) : e.day = day).load
    ELSE 0

\* the first position of the day in availableDays
FirstPosition(day) ==
    CHOOSE k \in 1 .. Len(availableDays) :
        /\ <<availableDays[k]>> = day
        /\ \A l \in 1 .. k - 1 : <<availableDays[l]>> # day

\* the step of the loop that assigns the next room group
AssignsRoom == pc = "for" /\ assigned' = assigned + 1

\* the day that step chose, and the total minutes of its group
ChosenDay == assignments'[Len(assignments')].scheduledDay

GroupMinutes == roomEntries[assigned + 1].totalMinutes

\* C15: when a room group is assigned, the running load of the chosen day
\* is at most that of every available day, the chosen day is the earliest in
\* availableDays of the days with that load, and afterwards the load of
\* that day alone has grown, by the total minutes of the group.
C15_GreedyMinimumDay ==
    [][AssignsRoom =>
        /\ \A k \in 1 .. Len(availableDays) :
              /\ LoadOf(dayLoads, ChosenDay)
                    <= LoadOf(dayLoads, <<availableDays[k]>>)
              /\ LoadOf(dayLoads, ChosenDay)
                    = LoadOf(dayLoads, <<availableDays[k]>>)
                    => FirstPosition(ChosenDay) <= k
        /\ LoadOf(dayLoads', ChosenDay)
              = LoadOf(dayLoads, ChosenDay) + GroupMinutes
        /\ \A k \in 1 .. Len(availableDays) :
              <<availableDays[k]>> # ChosenDay =>
                  LoadOf(dayLoads', <<availableDays[k]>>)
                      = LoadOf(dayLoads, <<availableDays[k]>>)
        /\ \A j \in Len(assignments) + 1 .. Len(assignments') :
              assignments'[j].scheduledDay = ChosenDay]_vars

\* Kitchen 40, Bathroom 25 and Office 10 minutes over the days 1..6: the
\* loads are 40 on day 1, 25 on day 2, 10 on day 3 and 0 on the others
C15_Witness ==
    /\ pc = "optimizeWeeklySchedule"
    /\ availableDays = <<1, 2, 3, 4, 5, 6>>
    /\ Len(tasks) = 3
    /\ tasks[1].room = "Kitchen" /\ tasks[1].estimatedMinutes = 40
    /\ tasks[2].room = "Bathroom" /\ tasks[2].estimatedMinutes = 25
    /\ tasks[3].room = "Office" /\ tasks[3].estimatedMinutes = 10
    /\ Qualifying = {1, 2, 3}
    /\ dayLoads = <<[day |-> <<1>>, load |-> 40], [day |-> <<2>>, load |-> 25],
                    [day |-> <<3>>, load |-> 10], [day |-> <<4>>, load |-> 0],
                    [day |-> <<5>>, load |-> 0], [day |-> <<6>>, load |-> 0]>>

\* the room of the task the result names at position j
RoomAt(j) ==
    (CHOOSE t \in Range(tasks) : t.id = assignments[j].taskId).room

\* the minutes of the tasks at the positions, added up
RECURSIVE SumMinutes(_)
SumMinutes(positions) ==
    IF positions = {} THEN 0
    ELSE LET i == CHOOSE i \in positions : TRUE
         IN  tasks[i].estimatedMinutes + SumMinutes(positions \ {i})

\* the total minutes of the room group, and where the room first appears
RoomTotal(room) == SumMinutes({i \in Qualifying : tasks[i].room = room})

FirstAppearance(room) ==
    CHOOSE i \in Qualifying :
        /\ tasks[i].room = room
        /\ \A l \in Qualifying : tasks[l].room = room => i <= l

\* C16: room groups are assigned in non-increasing order of their total
\* minutes, groups with the same total in the order of their first
\* appearance in the input, and the result lists the tasks of each group
\* next to each other in that order: at every moment of the loop and in the
\* returned list.
C16_HeaviestFirst ==
    pc \in {"for", "optimizeWeeklySchedule"} =>
        \A j, k \in 1 .. Len(assignments) :
            j < k =>
                /\ RoomTotal(RoomAt(j)) >= RoomTotal(RoomAt(k))
                /\ (/\ RoomTotal(RoomAt(j)) = RoomTotal(RoomAt(k))
                    /\ RoomAt(j) # RoomAt(k)) =>
                        FirstAppearance(RoomAt(j)) < FirstAppearance(RoomAt(k))
                /\ RoomAt(j) = RoomAt(k) =>
                        \A l \in j .. k : RoomAt(l) = RoomAt(j)

\* Office 10, Bathroom 25 and Kitchen 25 minutes in this order: the result
\* lists the Bathroom task, the Kitchen task and then the Office task
C16_Witness ==
    /\ pc = "optimizeWeeklySchedule"
    /\ Len(tasks) = 3
    /\ Len(assignments) = 3
    /\ tasks[1].room = "Office" /\ tasks[1].estimatedMinutes = 10
    /\ tasks[2].room = "Bathroom" /\ tasks[2].estimatedMinutes = 25
    /\ tasks[3].room = "Kitchen" /\ tasks[3].estimatedMinutes = 25
    /\ assignments[1].taskId = 2
    /\ assignments[2].taskId = 3
    /\ assignments[3].taskId = 1

\* the rooms of the Weekly and BiWeekly tasks
QualifyingRooms == {tasks[i].room : i \in Qualifying}

\* C17: when there are at most as many room groups as distinct available
\* days and every group has a positive total, no two groups share a day; so
\* two groups of M1 > M2 minutes over two empty days get a day each.
C17_GroupsOnDifferentDays ==
    (/\ pc = "optimizeWeeklySchedule"
     /\ Cardinality(QualifyingRooms) <= Cardinality(Range(availableDays))
     /\ \A room \in QualifyingRooms : RoomTotal(room) > 0) =>
        \A i, j \in Qualifying :
            tasks[i].room # tasks[j].room => DayOf(i) # DayOf(j)

\* a Bathroom group of 25 minutes and a Kitchen group of 40 + 25 minutes
\* over the days 5 and 2: the Kitchen on day 5, the Bathroom on day 2
C17_Witness ==
    /\ pc = "optimizeWeeklySchedule"
    /\ availableDays = <<5, 2>>
    /\ Qualifying = {1, 2, 3}
    /\ tasks[1].room = "Bathroom"
    /\ RoomTotal("Bathroom") = 25
    /\ RoomTotal("Kitchen") = 65
    /\ DayOf(1) = <<2>>
    /\ DayOf(2) = <<5>>
    /\ DayOf(3) = <<5>>

-----------------------------------------------------------------------------
(* The balance of the schedule *)

\* the distinct available days
Days == Range(availableDays)

\* the largest number of a non-empty set of numbers, and the smallest
Maximum(S) == CHOOSE x \in S : \A y \in S : y <= x

Minimum(S) == CHOOSE x \in S : \A y \in S : x <= y

\* the largest per-day load of the returned schedule, from the input minutes
MaxLoad ==
    Maximum({SumMinutes({i \in Qualifying : DayOf(i) = <<d>>}) : d \in Days})

\* the smallest largest per-day load of the schedules that put the rooms on
\* days with the loads given and keep each room on one day; of the days with
\* the same load only the first is tried, the others give the same loads
RECURSIVE Optimum(_, _)
Optimum(rooms, loads) ==
    IF rooms = {} THEN Maximum({loads[d] : d \in Days})
    ELSE LET room == CHOOSE r \in rooms : TRUE
             tried == {d \in Days :
                         \A e \in Days : loads[e] = loads[d] => d <= e}
         IN  Minimum({Optimum(rooms \ {room},
                              [loads EXCEPT ![d] = @ + RoomTotal(room)]) :
                        d \in tried})

\* C18: with m >= 1 distinct available days the largest per-day load of the
\* returned schedule is at most 4/3 - 1/(3m) times the smallest one that a
\* schedule keeping each room group on one day can have:
\* 3 * m * max <= (4 * m - 1) * optimum.
C18_BoundedFactor ==
    (pc = "optimizeWeeklySchedule" /\ Days # {}) =>
        3 * Cardinality(Days) * MaxLoad
            <= (4 * Cardinality(Days) - 1)
                  * Optimum(QualifyingRooms, [d \in Days |-> 0])

\* groups of 30, 30, 20, 20 and 20 minutes over two days: the schedule has
\* 70 minutes on a day where 60 are possible, the bound itself
C18_Witness ==
    /\ pc = "optimizeWeeklySchedule"
    /\ Cardinality(Days) = 2
    /\ Cardinality(QualifyingRooms) = 5
    /\ MaxLoad = 70
    /\ Optimum(QualifyingRooms, [d \in Days |-> 0]) = 60

\* getScheduleSummary: for each day that has an assignment of a known task,
\* the rooms assigned to it and the minutes of its tasks; the result Map is
\* modelled as a function of the days and a sorted rooms array as its set
getScheduleSummary(tasks_, assignments_) ==
    LET taskMapGet(taskId) ==
            IF \E i \in 1 .. Len(tasks_) : tasks_[i].id = taskId
            THEN <<tasks_[CHOOSE i \in 1 .. Len(tasks_) :
                            /\ tasks_[i].id = taskId
                            /\ \A l \in i + 1 .. Len(tasks_) :
                                  tasks_[l].id # taskId]>>
            ELSE Undefined
        known == {j \in 1 .. Len(assignments_) :
                    taskMapGet(assignments_[j].taskId) # Undefined}
        minutesOf[js \in SUBSET known] ==
            IF js = {} THEN 0
            ELSE LET j == CHOOSE j \in js : TRUE
                 IN  taskMapGet(assignments_[j].taskId)[1].estimatedMinutes
                        + minutesOf[js \ {j}]
    IN  [day \in {assignments_[j].scheduledDay : j \in known} |->
            LET on == {j \in known : assignments_[j].scheduledDay = day}
            IN  [rooms |-> {taskMapGet(assignments_[j].taskId)[1].room :
                                j \in on},
                 totalMinutes |-> minutesOf[on]]]

\* the loads of the Map entries, added up
RECURSIVE SumLoads(_, _)
SumLoads(loads, n) ==
    IF n = 0 THEN 0 ELSE loads[n].load + SumLoads(loads, n - 1)

\* the totals of the first n room groups, added up
RECURSIVE SumTotals(_)
SumTotals(n) ==
    IF n = 0 THEN 0 ELSE roomEntries[n].totalMinutes + SumTotals(n - 1)

\* C30: after every assignment step of optimizeWeeklySchedule, and so at its
\* end, the loads of the heaviest and of the lightest available day differ by
\* at most the largest room-group total, and the day loads add up to the
\* total minutes of the groups assigned so far; the minutes that
\* getScheduleSummary reports for a day are that day's load.
C30_LoadsBalanced ==
    (pc \in {"for", "optimizeWeeklySchedule"} /\ Len(roomEntries) > 0) =>
        /\ Days # {} =>
              Maximum({LoadOf(dayLoads, <<d>>) : d \in Days})
                    - Minimum({LoadOf(dayLoads, <<d>>) : d \in Days})
                 <= Maximum({roomEntries[j].totalMinutes :
                                j \in 1 .. Len(roomEntries)})
        /\ SumLoads(dayLoads, Len(dayLoads)) = SumTotals(assigned)
        /\ LET summary == getScheduleSummary(tasks, assignments)
           IN  /\ \A day \in DOMAIN summary :
                     summary[day].totalMinutes = LoadOf(dayLoads, day)
               /\ \A e \in Range(dayLoads) :
                     e.load > 0 => e.day \in DOMAIN summary

\* five rooms of 30, 30, 20, 20 and 20 minutes over the days 5 and 2, all
\* assigned: 70 minutes on one day and 50 on the other, 120 in all
C30_Witness ==
    /\ pc = "for"
    /\ availableDays = <<5, 2>>
    /\ assigned = 5
    /\ Len(roomEntries) = 5
    /\ {LoadOf(dayLoads, <<5>>), LoadOf(dayLoads, <<2>>)} = {70, 50}
    /\ getScheduleSummary(tasks, assignments)[<<5>>].totalMinutes
          = LoadOf(dayLoads, <<5>>)

-----------------------------------------------------------------------------
(* The flows that store a schedule (App.tsx, useTasks.ts) *)

\* the loop of optimizeWeeklySchedule from entry i on, as AssignRoom steps it
RECURSIVE assignRooms(_, _, _, _, _)
assignRooms(entries, i, loads, assignments_, availableDays_) ==
    IF i > Len(entries) THEN assignments_
    ELSE LET minDay == minDayOf(loads, availableDays_)
         IN  assignRooms(entries, i + 1,
                         addLoad(loads, minDay, entries[i].totalMinutes),
                         pushAssignments(assignments_, entries[i].tasks,
                                         minDay),
                         availableDays_)

\* optimizeWeeklySchedule as its callers use it, from call to return
optimizeWeeklySchedule(tasks_, availableDays_) ==
    LET weekly == weeklyTasks(tasks_)
        roomGroups == roomGroupsOf(weekly, Len(weekly))
        entries == roomEntriesOf(roomGroups)
    IN  IF Len(weekly) = 0 THEN <<>>
        ELSE assignRooms(sortEntries(entries, Len(entries)), 1,
                         initialDayLoads(availableDays_, Len(availableDays_)),
                         <<>>, availableDays_)

\* (task.completedDates ?? []).includes(date)
isOccurrenceCompleted(t, date) ==
    date \in Range(Coalesce(t.completedDates, <<>>))

\* A document is a record of the fields of Task that the flows read or
\* write; a field that Firestore does not hold is Undefined, as a field set
\* to undefined is left out of every write.
OptionalFields == {"scheduledDay", "anchorDate", "completedDates"}

\* firestoreService.saveTask: setDoc of the task without its undefined fields
saveTask(store_, t) ==
    IF \E k \in 1 .. Len(store_) : store_[k].id = t.id
    THEN [k \in 1 .. Len(store_) |->
            IF store_[k].id = t.id THEN t ELSE store_[k]]
    ELSE Append(store_, t)

\* firestoreService.saveTasks: saveTask for each of the first n tasks
RECURSIVE saveTasks(_, _, _)
saveTasks(store_, ts, n) ==
    IF n = 0 THEN store_
    ELSE saveTask(saveTasks(store_, ts, n - 1), ts[n])

\* firestoreService.updateTask: updateDoc with the updates that are not
\* undefined
updateTask(store_, taskId, updates) ==
    [k \in 1 .. Len(store_) |->
        IF store_[k].id = taskId
        THEN [f \in DOMAIN store_[k] |->
                IF /\ f \in DOMAIN updates
                   /\ ~(f \in OptionalFields /\ updates[f] = Undefined)
                THEN updates[f] ELSE store_[k][f]]
        ELSE store_[k]]

\* tasks.find(t => t.id === taskId)
findTask(ts, taskId) ==
    IF \E k \in 1 .. Len(ts) : ts[k].id = taskId
    THEN <<ts[CHOOSE k \in 1 .. Len(ts) :
                /\ ts[k].id = taskId
                /\ \A l \in 1 .. k - 1 : ts[l].id # taskId]>>
    ELSE Undefined

\* App.tsx, the sync effect: the tasks of the snapshot with isDue and
\* isCompleted refreshed
refreshedTasks(firestoreTasks, today_) ==
    [k \in 1 .. Len(firestoreTasks) |->
        [firestoreTasks[k] EXCEPT
            !.isDue = isTaskDueOnDate(firestoreTasks[k], today_),
            !.isCompleted = isOccurrenceCompleted(firestoreTasks[k], today_)]]

\* for each assignment: the find, and task.scheduledDay = scheduledDay
RECURSIVE applyAssignments(_, _, _)
applyAssignments(ts, assignments_, n) ==
    IF n = 0 THEN ts
    ELSE LET before == applyAssignments(ts, assignments_, n - 1)
             a == assignments_[n]
         IN  [k \in 1 .. Len(before) |->
                IF findTask(before, a.taskId) = <<before[k]>>
                THEN [before[k] EXCEPT !.scheduledDay = a.scheduledDay]
                ELSE before[k]]

\* for (const task of newTasks): nextDueDate and isDue from the recurrence
computeDueDates(ts, today_) ==
    [k \in 1 .. Len(ts) |->
        LET t == [ts[k] EXCEPT !.nextDueDate = getNextOccurrence(ts[k], today_)]
        IN  [t EXCEPT !.isDue = isTaskDueOnDate(t, today_)]]

\* a faulty variant of balanceUpdates: the anchor is reset as well, as for a new task
balanceUpdatesAnchored(t, scheduledDay, today_) ==
    [scheduledDay |-> scheduledDay,
     anchorDate |-> <<today_>>,
     nextDueDate |->
        getNextOccurrence([t EXCEPT !.scheduledDay = scheduledDay], today_)]

\* handleBalanceSchedule: the updates of one task, { scheduledDay,
\* nextDueDate: getNextOccurrence({ ...task, scheduledDay }, today) }
balanceUpdates(t, scheduledDay, today_) ==
    [scheduledDay |-> scheduledDay,
     nextDueDate |->
        getNextOccurrence([t EXCEPT !.scheduledDay = scheduledDay], today_)]

\* addRoom: the task of the template at index i (from 0), before the
\* optimizer runs
newTask(id, roomName, tmpl, i, today_) ==
    [id |-> id,
     room |-> roomName,
     frequency |-> tmpl.frequency,
     estimatedMinutes |-> tmpl.estimatedMinutes,
     scheduledDay |->
        IF tmpl.frequency = Monthly \/ tmpl.frequency = Quarterly
        THEN <<((i * 7) % 28) + 1>> ELSE Undefined,
     anchorDate |->
        IF tmpl.frequency = BiWeekly \/ tmpl.frequency = Quarterly
        THEN <<today_>> ELSE Undefined,
     completedDates |-> << <<>> >>,
     nextDueDate |-> today_,
     isDue |-> FALSE,
     isCompleted |-> FALSE]

\* migrateTaskToRecurrence, merged into the task: { ...task, ...updates };
\* utcToday is new Date().toISOString().split('T')[0]
migrateTaskToRecurrence(t, utcToday) ==
    LET date == toDate(t.nextDueDate)
    IN  [t EXCEPT
            !.scheduledDay =
                CASE t.frequency \in {Weekly, BiWeekly} -> <<getDay(date)>>
                  [] t.frequency \in {Monthly, Quarterly} -> <<getDate(date)>>
                  [] OTHER -> Undefined,
            !.anchorDate =
                IF t.frequency \in {BiWeekly, Quarterly}
                THEN <<t.nextDueDate>> ELSE Undefined,
            !.completedDates =
                IF t.isCompleted THEN << <<utcToday>> >> ELSE << <<>> >>]

needsMigration(t) == t.completedDates = Undefined

\* does getTaskOccurrences throw: toDate(undefined), the split of a date
\* string that is undefined, when a fallback to nextDueDate finds none
occurrencesThrow(t, startDate_, endDate_) ==
    LET noDay == t.scheduledDay = Undefined /\ t.nextDueDate = Undefined
        noAnchor == t.anchorDate = Undefined /\ t.nextDueDate = Undefined
    IN  CASE t.frequency = Weekly -> noDay
          [] t.frequency = BiWeekly ->
                \/ noDay
                \/ /\ noAnchor
                   /\ \E current \in DatesBetween(startDate_, endDate_) :
                         dayOfWeek(current) = t.scheduledDay[1]
          [] t.frequency = Monthly -> noDay
          [] t.frequency = Quarterly -> noDay \/ noAnchor
          [] OTHER -> FALSE

\* does getNextOccurrence throw: Daily returns before the range query
nextOccurrenceThrows(t, onOrAfterDate) ==
    /\ t.frequency # Daily
    /\ occurrencesThrow(t, onOrAfterDate, addDays(onOrAfterDate, 366))

\* handleSaveTask: taskToSave as it is built from taskData, with an id of
\* its own when taskData has none and no nextDueDate yet
taskToSave(taskData, freshId) ==
    [id |-> Coalesce(taskData.id, freshId),
     room |-> taskData.room,
     frequency |-> taskData.frequency,
     estimatedMinutes |->
        IF taskData.estimatedMinutes = 0 THEN 15
        ELSE taskData.estimatedMinutes,
     scheduledDay |-> taskData.scheduledDay,
     anchorDate |-> Undefined,
     completedDates |-> << <<>> >>,
     nextDueDate |-> Undefined,
     isDue |-> TRUE,
     isCompleted |-> FALSE]

-----------------------------------------------------------------------------
(* The households the flows are run on *)

\* a stored task
Doc(room, frequency, minutes, scheduledDay, anchorDate, due, completed) ==
    [id |-> 0, room |-> room, frequency |-> frequency,
     estimatedMinutes |-> minutes, scheduledDay |-> scheduledDay,
     anchorDate |-> anchorDate, nextDueDate |-> due,
     completedDates |-> completed, isDue |-> FALSE,
     isCompleted |-> completed # Undefined /\ completed # << <<>> >>]

\* tasks of the recurrence model
RecurrenceDocs ==
    {Doc("Kitchen", Weekly, 40, <<3>>, Undefined, <<2024, 1, 10>>,
         << <<>> >>),
     Doc("Bathroom", BiWeekly, 25, <<1>>, << <<2024, 1, 1>> >>,
         <<2024, 1, 15>>, << << <<2024, 1, 1>> >> >>),
     Doc("Office", Daily, 5, Undefined, Undefined, <<2024, 1, 10>>,
         << <<>> >>),
     Doc("Kitchen", Monthly, 60, <<31>>, Undefined, <<2024, 1, 31>>,
         << <<>> >>),
     Doc("Office", Quarterly, 45, <<15>>, << <<2024, 1, 15>> >>,
         <<2024, 1, 15>>, << <<>> >>)}

\* tasks of the old model, with a nextDueDate only
LegacyDocs ==
    {Doc("Kitchen", Weekly, 40, Undefined, Undefined, <<2024, 1, 10>>,
         Undefined),
     Doc("Bathroom", BiWeekly, 25, Undefined, Undefined, <<2024, 2, 29>>,
         Undefined),
     [Doc("Office", Monthly, 60, Undefined, Undefined, <<2024, 1, 10>>,
          Undefined) EXCEPT !.isCompleted = TRUE]}

\* the households: one or two stored tasks, with the ids 1 and 2
Stores ==
    {[k \in 1 .. Len(docs) |-> [docs[k] EXCEPT !.id = k]] :
        docs \in UNION {[1 .. n -> RecurrenceDocs \cup LegacyDocs] :
                            n \in 1 .. 2}}

\* a Wednesday and a Thursday
Todays == {<<2024, 1, 10>>, <<2024, 3, 14>>}

Template(frequency, minutes) ==
    [frequency |-> frequency, estimatedMinutes |-> minutes]

\* the seed tasks of a new room
SeedLists ==
    {<<Template(Monthly, 20), Template(Weekly, 15), Template(BiWeekly, 10)>>,
     <<Template(Daily, 5), Template(Quarterly, 30)>>}

InitApp ==
    /\ store \in Stores
    /\ today \in Todays
    /\ migrationKey = FALSE
    /\ pc = "start"
    /\ EngineIdle
    /\ SchedulerIdle
    /\ WalkIdle
    /\ ClientIdle

\* handleBalanceSchedule up to its loop: the optimizer runs on the tasks of
\* the App, the snapshot as the sync effect refreshed it
HandleBalanceSchedule ==
    /\ pc = "start"
    /\ LET appTasks == refreshedTasks(store, today)
       IN  /\ tasks' = appTasks
           /\ assignments' = optimizeWeeklySchedule(appTasks, DefaultDays)
    /\ assigned' = 0
    /\ pc' = "handleBalanceSchedule:for"
    /\ UNCHANGED <<availableDays, roomEntries, dayLoads>>
    /\ UNCHANGED engineVars
    /\ UNCHANGED appVars
    /\ UNCHANGED <<walk, clientVars>>

\* one iteration of its loop: the find and the awaited updateTask
BalanceUpdateTask ==
    /\ pc = "handleBalanceSchedule:for"
    /\ assigned < Len(assignments)
    /\ LET a == assignments[assigned + 1]
           found == findTask(tasks, a.taskId)
       IN  IF found # Undefined
           THEN store' = updateTask(store, a.taskId,
                            balanceUpdates(found[1], a.scheduledDay, today))
           ELSE store' = store
    /\ assigned' = assigned + 1
    /\ UNCHANGED <<pc, tasks, availableDays, roomEntries, dayLoads,
                   assignments>>
    /\ UNCHANGED <<today, migrationKey>>
    /\ UNCHANGED engineVars
    /\ UNCHANGED <<walk, clientVars>>

\* the loop is over
BalanceReturn ==
    /\ pc = "handleBalanceSchedule:for"
    /\ assigned = Len(assignments)
    /\ pc' = "handleBalanceSchedule"
    /\ UNCHANGED schedulerVars
    /\ UNCHANGED appVars
    /\ UNCHANGED engineVars
    /\ UNCHANGED <<walk, clientVars>>

\* addRoom(roomName, roomType, seedTasks), with ids that no task has yet
AddRoom ==
    /\ pc = "start"
    /\ \E seedTasks \in SeedLists :
          LET newTasks ==
                  [k \in 1 .. Len(seedTasks) |->
                      newTask(Len(store) + k, "Garage", seedTasks[k], k - 1,
                              today)]
              assignments_ == optimizeWeeklySchedule(newTasks, DefaultDays)
              scheduled ==
                  applyAssignments(newTasks, assignments_, Len(assignments_))
              saved == computeDueDates(scheduled, today)
          IN  /\ tasks' = saved
              /\ assignments' = assignments_
              /\ store' = saveTasks(store, saved, Len(saved))
    /\ pc' = "addRoom"
    /\ UNCHANGED <<availableDays, roomEntries, dayLoads, assigned>>
    /\ UNCHANGED <<today, migrationKey>>
    /\ UNCHANGED engineVars
    /\ UNCHANGED <<walk, clientVars>>

\* the snapshot callback of useTasks when a task needs the migration:
\* runMigration(userId, updatedTasks), then the key is stored
RunMigration ==
    /\ pc = "start"
    /\ ~migrationKey
    /\ \E k \in 1 .. Len(store) : needsMigration(store[k])
    /\ \E utcToday \in {addDays(today, 0 - 1), today, addDays(today, 1)} :
          LET migratedTasks ==
                  [k \in 1 .. Len(store) |->
                      migrateTaskToRecurrence(store[k], utcToday)]
              assignments_ ==
                  optimizeWeeklySchedule(migratedTasks, DefaultDays)
              saved == applyAssignments(migratedTasks, assignments_,
                                        Len(assignments_))
          IN  /\ tasks' = saved
              /\ assignments' = assignments_
              /\ store' = saveTasks(store, saved, Len(saved))
    /\ migrationKey' = TRUE
    /\ pc' = "runMigration"
    /\ UNCHANGED <<availableDays, roomEntries, dayLoads, assigned>>
    /\ UNCHANGED today
    /\ UNCHANGED engineVars
    /\ UNCHANGED <<walk, clientVars>>

\* what the task modal submits: the frequency, the day of the week (0..6)
\* or of the month (1..31) for a task that is not Daily, the minutes, and the
\* id when a task is edited; never an anchorDate
TaskForms ==
    LET Form(frequency, scheduledDay, minutes) ==
            [room |-> "Kitchen", frequency |-> frequency,
             scheduledDay |-> scheduledDay, estimatedMinutes |-> minutes]
        forms == {Form(Daily, Undefined, 5), Form(Weekly, <<0>>, 0),
                  Form(Weekly, <<3>>, 40), Form(BiWeekly, <<3>>, 25),
                  Form(Monthly, <<31>>, 60), Form(Quarterly, <<15>>, 45)}
    IN  {[id |-> id, room |-> f.room, frequency |-> f.frequency,
          scheduledDay |-> f.scheduledDay,
          estimatedMinutes |-> f.estimatedMinutes] :
            id \in {Undefined, <<1>>}, f \in forms}

\* handleSaveTask(taskData): the task is built, nextDueDate and isDue are
\* computed and the task is saved; an error of the recurrence functions is
\* caught, and then nothing is saved
HandleSaveTask ==
    /\ pc = "start"
    /\ \E taskData \in TaskForms :
          LET draft == taskToSave(taskData, Len(store) + 1)
              dated == [draft EXCEPT
                          !.nextDueDate = getNextOccurrence(draft, today)]
              saved == [dated EXCEPT !.isDue = isTaskDueOnDate(dated, today)]
          IN  IF nextOccurrenceThrows(draft, today)
              THEN /\ tasks' = <<draft>>
                   /\ store' = store
                   /\ pc' = "handleSaveTask:catch"
              ELSE /\ tasks' = <<saved>>
                   /\ store' = saveTask(store, saved)
                   /\ pc' = "handleSaveTask"
    /\ UNCHANGED <<availableDays, roomEntries, dayLoads, assigned,
                   assignments>>
    /\ UNCHANGED <<today, migrationKey>>
    /\ UNCHANGED engineVars
    /\ UNCHANGED <<walk, clientVars>>

NextApp ==
    \/ HandleBalanceSchedule
    \/ BalanceUpdateTask
    \/ BalanceReturn
    \/ AddRoom
    \/ RunMigration
    \/ HandleSaveTask

SpecApp == InitApp /\ [][NextApp]_vars

-----------------------------------------------------------------------------
(* Properties of the flows *)

\* a step of a balance pass: the optimizer run, or one update
BalanceStep ==
    \/ pc = "start" /\ pc' = "handleBalanceSchedule:for"
    \/ pc = "handleBalanceSchedule:for"

\* the fields of a stored task but scheduledDay and nextDueDate
FrameFields ==
    {"id", "room", "frequency", "estimatedMinutes", "anchorDate",
     "completedDates", "isDue", "isCompleted"}

\* C19: a balance pass leaves the documents of the Daily, Monthly and
\* Quarterly tasks as they are and writes nothing but scheduledDay and
\* nextDueDate of the Weekly and BiWeekly tasks, so frequency, anchorDate,
\* completedDates, room and estimatedMinutes of every task stay; and the
\* task list the optimizer was given stays as it was during the pass.
C19_BalanceFrame ==
    [][BalanceStep =>
        /\ Len(store') = Len(store)
        /\ \A k \in 1 .. Len(store) :
              /\ \A f \in FrameFields : store'[k][f] = store[k][f]
              /\ store[k].frequency \in {Daily, Monthly, Quarterly}
                    => store'[k] = store[k]
        /\ pc = "handleBalanceSchedule:for" => tasks' = tasks]_vars

\* after a pass over a Kitchen task on Wednesdays and a Monthly task, the
\* Kitchen task is on Mondays and due on the next Monday, and the Monthly
\* task is as the App read it
C19_Witness ==
    /\ pc = "handleBalanceSchedule"
    /\ today = <<2024, 1, 10>>
    /\ Len(store) = 2
    /\ tasks[1].frequency = Weekly
    /\ tasks[1].scheduledDay = <<3>>
    /\ store[1].scheduledDay = <<1>>
    /\ store[1].nextDueDate = <<2024, 1, 15>>
    /\ store[2].frequency = Monthly
    /\ store[2].scheduledDay = <<31>>
    /\ store[2].nextDueDate = tasks[2].nextDueDate

\* the stored task with the id
StoredTask(id) == store[CHOOSE k \in 1 .. Len(store) : store[k].id = id]

\* C20: when addRoom, a balance pass or runMigration has stored the
\* optimizer's assignments, every task they name has the assigned
\* scheduledDay, and its nextDueDate is getNextOccurrence of the stored task
\* from today, a date on that day of the week.
C20_DueDateFollowsSchedule ==
    pc \in {"addRoom", "handleBalanceSchedule", "runMigration"} =>
        \A j \in 1 .. Len(assignments) :
            LET t == StoredTask(assignments[j].taskId)
            IN  /\ t.scheduledDay = assignments[j].scheduledDay
                /\ t.nextDueDate = getNextOccurrence(t, today)
                /\ (toDate(t.nextDueDate) + 4) % 7 = t.scheduledDay[1]

-----------------------------------------------------------------------------
(* Properties of the BiWeekly weeks, whatever the anchor's day of the week *)

C28_FourteenDaysApart ==
    (/\ pc = "getTaskOccurrences"
     /\ task.frequency = BiWeekly
     /\ task.scheduledDay # Undefined
     /\ task.scheduledDay[1] \in 0 .. 6) =>
        /\ \A i \in 1 .. Len(occurrences) - 1 :
              toDate(occurrences[i + 1]) - toDate(occurrences[i]) = 14
        /\ \A w \in DatesBetween(startDate, addDays(endDate, 0 - 13)) :
              Cardinality({d \in Range(occurrences) :
                              StrLE(w, d) /\ StrLE(d, addDays(w, 13))}) = 1
        /\ endDate = startDate =>
              LET next == getNextOccurrence(task, startDate)
              IN  /\ isTaskDueOnDate(task, next)
                  /\ toDate(next) - toDate(startDate) \in 0 .. 13

\* anchor 2024-03-14, a Thursday, and scheduledDay Wednesday: from 01-30 on
\* the occurrences are 01-31, 02-14, 02-28, 03-13, 03-27, ...
C28_Witness ==
    /\ pc = "getTaskOccurrences"
    /\ task.frequency = BiWeekly
    /\ task.scheduledDay = <<3>>
    /\ task.anchorDate = << <<2024, 3, 14>> >>
    /\ startDate = <<2024, 1, 30>>
    /\ Len(occurrences) >= 5
    /\ SubSeq(occurrences, 1, 5) =
          << <<2024, 1, 31>>, <<2024, 2, 14>>, <<2024, 2, 28>>,
             <<2024, 3, 13>>, <<2024, 3, 27>> >>

-----------------------------------------------------------------------------
(* The range query against the single-date query *)

\* C29: for every task and every date d of a range [startDate, endDate], d is
\* in getTaskOccurrences(task, startDate, endDate) iff isTaskDueOnDate(task,
\* d): the range query is the filter of the range by the single-date query,
\* wherever the range starts and ends.
C29_RangeIndependence ==
    pc = "getTaskOccurrences" =>
        \A d \in DatesBetween(startDate, endDate) :
            (d \in Range(occurrences)) = isTaskDueOnDate(task, d)

\* a Monthly task on the 31st from 2024-01-30 on: 01-31, 02-29 and 03-31 are
\* in the range's result and due on their own, and 02-28 is neither
C29_Witness ==
    /\ pc = "getTaskOccurrences"
    /\ task.frequency = Monthly
    /\ task.scheduledDay = <<31>>
    /\ startDate = <<2024, 1, 30>>
    /\ {<<2024, 1, 31>>, <<2024, 2, 29>>, <<2024, 3, 31>>}
          \subseteq Range(occurrences)
    /\ isTaskDueOnDate(task, <<2024, 2, 29>>)
    /\ ~isTaskDueOnDate(task, <<2024, 2, 28>>)
    /\ <<2024, 2, 28>> \notin Range(occurrences)

-----------------------------------------------------------------------------
(* getTaskOccurrences, one loop iteration at a time *)

\* the ranges of the walks over the months end 400 * j days after they start,
\* for j in 0 .. MaxYears, or before they start: the day before, or 400 days
\* before; the ranges of the loops over the days are a tenth as long
MaxYears == 2

WalkSpans(t) ==
    LET unit == IF t.frequency \in {Monthly, Quarterly} THEN 400 ELSE 40
    IN  {0 - 1, 0 - unit} \cup {unit * j : j \in 0 .. MaxYears}

\* the locals of a loop when it is entered: <<current>> for the loops over
\* the days, <<year, month>> for the walks over the months
EnterWalk(t, startDate_) ==
    IF t.frequency \in {Monthly, Quarterly}
    THEN <<getFullYear(toDate(startDate_)), getMonth(toDate(startDate_))>>
    ELSE <<startDate_>>

\* one test of  while (current <= endDate)  and, when it holds, one
\* iteration: whether the loop is left, and its locals and results then
DayIteration(t, endDate_, current, results) ==
    LET targetDay == IF t.frequency = Daily THEN Undefined
                     ELSE Coalesce(t.scheduledDay, dayOfWeek(t.nextDueDate))
        anchor == IF t.frequency = BiWeekly
                  THEN Coalesce(t.anchorDate, t.nextDueDate) ELSE Undefined
    IN  IF ~StrLE(current, endDate_)
        THEN [done |-> TRUE, walk |-> <<current>>, results |-> results]
        ELSE [done |-> FALSE,
              walk |-> <<addDays(current, 1)>>,
              results |-> DayBody(t.frequency, targetDay, anchor, current,
                                  results)]

\* a faulty variant of MonthIteration: after December the month is 0 again and
\* the year is left as it is
MonthIterationSameYear(t, startDate_, endDate_, year, month, results) ==
    LET targetDom == Coalesce(t.scheduledDay, dayOfMonth(t.nextDueDate))
        inCycle ==
            \/ t.frequency = Monthly
            \/ inQuarterlyCycle(month,
                  getMonth(toDate(Coalesce(t.anchorDate, t.nextDueDate))))
        dateStr == MonthDateStr(targetDom, year, month)
        pushed == IF inCycle
                  THEN pushFromStart(results, dateStr, startDate_)
                  ELSE results
        month1 == IF month + 1 > 11 THEN 0 ELSE month + 1
    IN  IF inCycle /\ StrLT(endDate_, dateStr)
        THEN [done |-> TRUE, walk |-> <<year, month>>, results |-> results]
        ELSE [done |-> year > getFullYear(toDate(endDate_)) + 1,
              walk |-> <<year, month1>>,
              results |-> pushed]

\* one iteration of the while (true) loop of Monthly or of Quarterly:
\* whether it ends in a break, and the loop's locals and results after it
MonthIteration(t, startDate_, endDate_, year, month, results) ==
    LET targetDom == Coalesce(t.scheduledDay, dayOfMonth(t.nextDueDate))
        inCycle ==
            \/ t.frequency = Monthly
            \/ inQuarterlyCycle(month,
                  getMonth(toDate(Coalesce(t.anchorDate, t.nextDueDate))))
        dateStr == MonthDateStr(targetDom, year, month)
        pushed == IF inCycle
                  THEN pushFromStart(results, dateStr, startDate_)
                  ELSE results
        month1 == IF month + 1 > 11 THEN 0 ELSE month + 1
        year1 == IF month + 1 > 11 THEN year + 1 ELSE year
    IN  IF inCycle /\ StrLT(endDate_, dateStr)
        THEN [done |-> TRUE, walk |-> <<year, month>>, results |-> results]
        ELSE [done |-> year1 > getFullYear(toDate(endDate_)) + 1,
              walk |-> <<year1, month1>>,
              results |-> pushed]

\* a task and a range, short or of several years
InitWalk ==
    /\ InitInputs
    /\ endDate \in {addDays(startDate, n) : n \in WalkSpans(task)}

\* getTaskOccurrences up to the loop of the task's frequency
EnterLoop ==
    /\ pc = "start"
    /\ pc' = "while"
    /\ occurrences' = <<>>
    /\ walk' = EnterWalk(task, startDate)
    /\ UNCHANGED <<task, startDate, endDate, isDue, nextOccurrence>>
    /\ UNCHANGED schedulerVars
    /\ UNCHANGED appVars
    /\ UNCHANGED clientVars

\* one iteration of the loop, or the test or break that leaves it
LoopIteration ==
    /\ pc = "while"
    /\ LET after ==
              IF task.frequency \in {Monthly, Quarterly}
              THEN MonthIteration(task, startDate, endDate, walk[1], walk[2],
                                  occurrences)
              ELSE DayIteration(task, endDate, walk[1], occurrences)
       IN  /\ walk' = after.walk
           /\ occurrences' = after.results
           /\ pc' = IF after.done THEN "getTaskOccurrences" ELSE "while"
    /\ UNCHANGED <<task, startDate, endDate, isDue, nextOccurrence>>
    /\ UNCHANGED schedulerVars
    /\ UNCHANGED appVars
    /\ UNCHANGED clientVars

NextWalk == EnterLoop \/ LoopIteration

SpecWalk == InitWalk /\ [][NextWalk]_vars

\* how many iterations a loop has left at most: the days up to endDate for
\* the loops over the days, and for the walks over the months the months up
\* to the January after the year that follows endDate's
IterationsLeft ==
    IF task.frequency \in {Monthly, Quarterly}
    THEN 12 * (getFullYear(toDate(endDate)) + 2) - (12 * walk[1] + walk[2])
    ELSE toDate(endDate) + 1 - toDate(walk[1])

\* C26: getTaskOccurrences terminates for every task and every pair of
\* dates, startDate > endDate and ranges of several years included: every
\* iteration after which a loop goes on has brought it closer to endDate,
\* or to the year bound of the walks over the months, by a day or a month,
\* and no loop goes past them; so each loop ends after finitely many steps.
C26_Terminates ==
    [][pc = "while" /\ pc' = "while" =>
          /\ IterationsLeft' < IterationsLeft
          /\ IterationsLeft' >= 0]_vars

\* a Quarterly walk over a range of more than two years that has returned
\* with eight occurrences or more
C26_Witness ==
    /\ pc = "getTaskOccurrences"
    /\ task.frequency = Quarterly
    /\ toDate(endDate) - toDate(startDate) >= 800
    /\ Len(occurrences) >= 8

-----------------------------------------------------------------------------
(* A client of a household: the snapshot callback of useTasks, the daily   *)
(* reset effect and handleToggleTask of App.tsx, with their awaits.  Each  *)
(* action is a stretch of code that runs without an await; a write changes *)
(* the collection and queues the snapshot that the subscription will       *)
(* deliver.                                                                *)

\* a client starts at most MaxMigrations runMigration calls and MaxPasses
\* reset passes, and the user clicks at most MaxClicks times
MaxMigrations == 2

MaxPasses == 2

MaxClicks == 1

\* the households of the client: a Weekly Kitchen task or a BiWeekly
\* Bathroom task, and a BiWeekly Bathroom task, both of the recurrence model
\* or both of the old one
Households ==
    {s \in Stores :
        /\ Len(s) = 2
        /\ needsMigration(s[1]) = needsMigration(s[2])
        /\ s[1].room \in {"Kitchen", "Bathroom"}
        /\ s[1].frequency \in {Weekly, BiWeekly}
        /\ s[2].room = "Bathroom"
        /\ s[2].frequency = BiWeekly}

\* cutoff.toISOString().split('T')[0] for cutoff = now - 30 days: the UTC
\* date of that instant, which is the local date or a day off it
Cutoffs(today_) ==
    {addDays(today_, 0 - 31), addDays(today_, 0 - 30), addDays(today_, 0 - 29)}

\* completedDates.filter(d => d >= cutoffStr)
pruned(t, cutoffStr) ==
    SelectSeq(Coalesce(t.completedDates, <<>>),
              LAMBDA d : StrLE(cutoffStr, d))

\* the condition of the reset pass: pruned.length !== completedDates.length
\* || task.isCompleted !== isCompletedToday
needsReset(t, today_, cutoffStr) ==
    \/ Len(pruned(t, cutoffStr)) # Len(Coalesce(t.completedDates, <<>>))
    \/ t.isCompleted # (today_ \in Range(pruned(t, cutoffStr)))

\* the updates of the reset pass for a task
resetUpdates(t, today_, cutoffStr) ==
    [completedDates |-> <<pruned(t, cutoffStr)>>,
     isCompleted |-> today_ \in Range(pruned(t, cutoffStr)),
     nextDueDate |-> getNextOccurrence(t, today_)]

\* the loop of the reset pass from the task at index k on: the index of the
\* first task that it updates, or Len(ts) + 1
RECURSIVE nextToReset(_, _, _, _)
nextToReset(ts, k, today_, cutoffStr) ==
    IF k > Len(ts) \/ needsReset(ts[k], today_, cutoffStr) THEN k
    ELSE nextToReset(ts, k + 1, today_, cutoffStr)

\* a faulty variant of lastResetAfterStart: the flag is not set before the loop
lastResetKept(savedResetDate, today_) == savedResetDate

\* tidyhome_last_reset once a pass has started:
\* localStorage.setItem('tidyhome_last_reset', today)
lastResetAfterStart(savedResetDate, today_) == <<today_>>

\* handleToggleTask: the updates for the task as the App has it (its
\* lastCompleted, an instant that nothing reads, is not a field of the tasks
\* here)
toggleUpdates(t, targetDate, today_) ==
    LET completedDates == Coalesce(t.completedDates, <<>>)
        updatedDates ==
            IF targetDate \in Range(completedDates)
            THEN SelectSeq(completedDates, LAMBDA d : d # targetDate)
            ELSE Append(completedDates, targetDate)
    IN  [completedDates |-> <<updatedDates>>,
         isCompleted |-> today_ \in Range(updatedDates)]

\* runMigration up to saveTasks: the tasks it saves
migratedTasks(updatedTasks, utcToday) ==
    LET migrated == [k \in 1 .. Len(updatedTasks) |->
                        migrateTaskToRecurrence(updatedTasks[k], utcToday)]
        assignments_ == optimizeWeeklySchedule(migrated, DefaultDays)
    IN  applyAssignments(migrated, assignments_, Len(assignments_))

\* the client has subscribed on a Thursday in March, the day after its last
\* reset pass, and the first snapshot is on its way; the day does not end
\* while the client runs
InitClient ==
    /\ store \in Households
    /\ today = <<2024, 3, 14>>
    /\ migrationKey = FALSE
    /\ lastReset = <<addDays(today, 0 - 1)>>
    /\ snapshots = <<store>>
    /\ loading = TRUE
    /\ passes = <<>>
    /\ migrations = <<>>
    /\ clicks = 0
    /\ pc = "subscribed"
    /\ EngineIdle
    /\ SchedulerIdle
    /\ WalkIdle

\* the snapshot callback of useTasks on the next snapshot: it starts
\* runMigration, whose saveTask calls are then under way, or sets the tasks
OnSnapshot ==
    /\ pc = "subscribed"
    /\ snapshots # <<>>
    /\ LET updatedTasks == Head(snapshots)
       IN  IF /\ ~migrationKey
              /\ \E k \in 1 .. Len(updatedTasks) : needsMigration(updatedTasks[k])
           THEN /\ Len(migrations) < MaxMigrations
                /\ \E utcToday \in {addDays(today, 0 - 1), today,
                                    addDays(today, 1)} :
                      migrations' =
                          Append(migrations,
                                 [writes |-> migratedTasks(updatedTasks, utcToday),
                                  done |-> FALSE])
                /\ UNCHANGED <<tasks, loading>>
           ELSE /\ tasks' = updatedTasks
                /\ loading' = FALSE
                /\ UNCHANGED migrations
    /\ snapshots' = Tail(snapshots)
    /\ UNCHANGED <<pc, store, today, migrationKey, lastReset, passes, clicks>>
    /\ UNCHANGED <<availableDays, roomEntries, dayLoads, assigned,
                   assignments>>
    /\ UNCHANGED <<engineVars, walk>>

\* one setDoc of a saveTasks of a migration reaches the collection
MigrationWrite ==
    /\ pc = "subscribed"
    /\ \E m \in 1 .. Len(migrations) :
          /\ migrations[m].writes # <<>>
          /\ store' = saveTask(store, Head(migrations[m].writes))
          /\ migrations' =
                [migrations EXCEPT ![m].writes = Tail(migrations[m].writes)]
    /\ snapshots' = Append(snapshots, store')
    /\ UNCHANGED <<pc, today, migrationKey, lastReset, passes, clicks, loading>>
    /\ UNCHANGED schedulerVars
    /\ UNCHANGED <<engineVars, walk>>

\* await runMigration(...) is over: localStorage.setItem(MIGRATION_KEY,
\* 'true'), and the callback returns
MigrationDone ==
    /\ pc = "subscribed"
    /\ \E m \in 1 .. Len(migrations) :
          /\ migrations[m].writes = <<>>
          /\ ~migrations[m].done
          /\ migrations' = [migrations EXCEPT ![m].done = TRUE]
    /\ migrationKey' = TRUE
    /\ UNCHANGED <<pc, store, today, lastReset, passes, clicks, loading,
                   snapshots>>
    /\ UNCHANGED schedulerVars
    /\ UNCHANGED <<engineVars, walk>>

\* the pass at index p of passes_ from its task at index `from` on, up to
\* its next await: the update it issues, if there is one left
ResetSegment(passes_, p, from) ==
    \E cutoffStr \in Cutoffs(today) :
        LET pass == passes_[p]
            k == nextToReset(pass.tasks, from, pass.today, cutoffStr)
        IN  IF k > Len(pass.tasks)
            THEN /\ passes' = [passes_ EXCEPT ![p].next = k, ![p].done = TRUE]
                 /\ UNCHANGED <<store, snapshots>>
            ELSE /\ passes' = [passes_ EXCEPT ![p].next = k + 1]
                 /\ store' = updateTask(store, pass.tasks[k].id,
                                 resetUpdates(pass.tasks[k], pass.today,
                                              cutoffStr))
                 /\ snapshots' = Append(snapshots, store')

\* the effect of App.tsx runs checkAndResetDaily and a pass starts: the flag
\* is set, and the loop runs up to its first update
CheckAndResetDaily ==
    /\ pc = "subscribed"
    /\ ~loading
    /\ lastReset # <<today>>
    /\ Len(tasks) > 0
    /\ Len(passes) < MaxPasses
    /\ lastReset' = lastResetAfterStart(lastReset, today)
    /\ LET pass == [today |-> today, tasks |-> tasks, next |-> 1,
                    done |-> FALSE]
       IN  ResetSegment(Append(passes, pass), Len(passes) + 1, 1)
    /\ UNCHANGED <<pc, today, migrationKey, migrations, clicks, loading>>
    /\ UNCHANGED schedulerVars
    /\ UNCHANGED <<engineVars, walk>>

\* an awaited updateTask of a pass is over: the loop goes on to its next
\* update, or to its end
ResetResume ==
    /\ pc = "subscribed"
    /\ \E p \in 1 .. Len(passes) :
          /\ ~passes[p].done
          /\ ResetSegment(passes, p, passes[p].next)
    /\ UNCHANGED <<pc, today, migrationKey, lastReset, migrations, clicks,
                   loading>>
    /\ UNCHANGED schedulerVars
    /\ UNCHANGED <<engineVars, walk>>

\* handleToggleTask(taskId, date) on the tasks the App has
HandleToggleTask(taskId, date) ==
    /\ pc = "subscribed"
    /\ clicks < MaxClicks
    /\ findTask(tasks, taskId) # Undefined
    /\ store' = updateTask(store, taskId,
                           toggleUpdates(findTask(tasks, taskId)[1], date,
                                         today))
    /\ snapshots' = Append(snapshots, store')
    /\ clicks' = clicks + 1
    /\ UNCHANGED <<pc, today, migrationKey, lastReset, passes, migrations,
                   loading>>
    /\ UNCHANGED schedulerVars
    /\ UNCHANGED <<engineVars, walk>>

\* the user completes or uncompletes a task for today or for yesterday
ToggleTask ==
    \E taskId \in 1 .. 2, date \in {today, addDays(today, 0 - 1)} :
        HandleToggleTask(taskId, date)

NextClient ==
    \/ OnSnapshot
    \/ MigrationWrite
    \/ MigrationDone
    \/ CheckAndResetDaily
    \/ ResetResume
    \/ ToggleTask

SpecClient == InitClient /\ [][NextClient]_vars

-----------------------------------------------------------------------------
(* Properties of the client *)

\* C21: once the daily reset pass for a new day D is over (and nothing else
\* has written), the stored nextDueDate of every task is
\* getNextOccurrence(task, D), so no task is left with a nextDueDate before D.
C21_ResetRecomputesDueDates ==
    \A p \in 1 .. Len(passes) :
        (passes[p].done /\ clicks = 0 /\ migrations = <<>>) =>
            \A k \in 1 .. Len(store) :
                /\ store[k].nextDueDate
                      = getNextOccurrence(store[k], passes[p].today)
                /\ StrLE(passes[p].today, store[k].nextDueDate)

\* C24: a client starts at most one reset pass for a calendar day, however
\* often its effect runs again while the pass awaits its updates.
C24_OnePassPerDay ==
    \A p, q \in 1 .. Len(passes) :
        passes[p].today = passes[q].today => p = q

\* a pass over two tasks awaits its first update, the snapshot with that
\* update has reached the client, whose tasks have changed, and there is
\* one pass and no more
C24_Witness ==
    /\ Len(passes) = 1
    /\ ~passes[1].done
    /\ passes[1].next = 2
    /\ lastReset = <<today>>
    /\ snapshots = <<>>
    /\ tasks = store
    /\ tasks # passes[1].tasks
    /\ ~loading

\* C25: a client starts runMigration at most once, whatever snapshots arrive
\* while it migrates.
C25_MigratesOnce == Len(migrations) <= 1

\* the completedDates of the stored task, as a set
StoredDates(store_, taskId) ==
    Range(Coalesce(findTask(store_, taskId)[1].completedDates, <<>>))

\* C27: a handleToggleTask(taskId, date) call flips the membership of date
\* in the stored completedDates of the task and leaves every other stored
\* date as it is, whatever it interleaves with; and a step of the reset pass
\* takes no date of the last 29 days from a stored task, so no completion is
\* lost to a write that was computed from an older snapshot.
C27_TogglesKeepOtherDates ==
    [][/\ \A taskId \in 1 .. 2, date \in {today, addDays(today, 0 - 1)} :
             HandleToggleTask(taskId, date) =>
                /\ StoredDates(store', taskId) \ {date}
                      = StoredDates(store, taskId) \ {date}
                /\ (date \in StoredDates(store', taskId))
                      = (date \notin StoredDates(store, taskId))
       /\ passes' # passes =>
             \A k \in 1 .. Len(store) :
                \A d \in StoredDates(store, store[k].id) :
                    StrLE(addDays(today, 0 - 29), d) =>
                        d \in StoredDates(store', store[k].id)]_vars

-----------------------------------------------------------------------------
(* Properties of handleSaveTask *)

\* C23: handleSaveTask succeeds for each of the five frequencies with what
\* the task modal supplies (scheduledDay for a task that is not Daily, no
\* anchorDate, no nextDueDate yet): the recurrence engine raises no error,
\* and the task is stored with nextDueDate an occurrence on or after today
\* and with isDue = isTaskDueOnDate(task, today).
C23_SaveSucceeds ==
    pc \in {"handleSaveTask", "handleSaveTask:catch"} =>
        /\ pc = "handleSaveTask"
        /\ StoredTask(tasks[1].id) = tasks[1]
        /\ StrLE(today, tasks[1].nextDueDate)
        /\ isTaskDueOnDate(tasks[1], tasks[1].nextDueDate)
        /\ tasks[1].isDue = isTaskDueOnDate(tasks[1], today)

====
